---- MODULE Spec2Model ----
(***************************************************************************)
(* Model of instaseis.InstaSeis (src/instaseis/instaseis.py): opening an   *)
(* AxiSEM database, locating the element of a query point, the buffered    *)
(* per-element field decodes, the reciprocal and forward contractions and  *)
(* the per-component post-processing.                                      *)
(*                                                                         *)
(* Numbers are integers.  Angles are multiples of 90 degrees (quadrants),  *)
(* local coordinates (xi, eta) are collocation nodes, sampling intervals   *)
(* are counted in ticks, and the database source time function is a unit   *)
(* impulse, so that every floating point operation of the program has an   *)
(* exact integer value.                                                    *)
(***************************************************************************)
EXTENDS Integers, Sequences, FiniteSets, TLC

VARIABLES fs, db, strain_buffer, displ_buffer, decodes, nq, last, procs

vars == <<fs, db, strain_buffer, displ_buffer, decodes, nq, last, procs>>

(***************************************************************************)
(* Bounds.                                                                 *)
(***************************************************************************)
NElem == 7          \* elements of the mesh
NDumps == 3         \* time samples stored per series
MaxQueries == 2     \* calls of get_seismograms on one database handle
MaxBufEntries == 1  \* largest buffer budget, counted in decoded arrays
NProc == 2          \* queries running concurrently on one handle

Elems == 0 .. (NElem - 1)
Times == 1 .. NDumps
None == "None"

(***************************************************************************)
(* The database on disk.                                                   *)
(***************************************************************************)
RecDirs == {"PX", "PZ"}
FwdDirs == {"MZZ", "MXX_P_MYY", "MXZ_MYZ", "MXY_MXX_M_MYY"}
AllDirs == RecDirs \cup FwdDirs
DumpTypes == {"displ_only", "strain_only", "fullfields"}
MeshNames == {"px", "pz", "m1", "m2", "m3", "m4"}

\* A subfolder is absent, present without Data/ordered_output.nc4 ("dir"),
\* or present with it ("file").
FileSystems == [dirs : [AllDirs -> {"absent", "dir", "file"}], dump_type : DumpTypes]

dir_exists(f, d) == f.dirs[d] # "absent"
file_exists(f, d) == f.dirs[d] = "file"

\* Scalars every mesh file of the database carries.
npol == 4
ndumps == NDumps
source_shift_samp == 1
amplitude == 2
dt_db == 125000000   \* the database sampling interval, in ticks of 1e-6 s

excitation_type(mesh) ==
    CASE mesh \in {"pz", "m1", "m2"} -> "monopole"
      [] mesh \in {"px", "m3"} -> "dipole"
      [] OTHER -> "quadpole"

MeshNum(mesh) ==
    CASE mesh = "px" -> 1 [] mesh = "pz" -> 2 [] mesh = "m1" -> 3
      [] mesh = "m2" -> 4 [] mesh = "m3" -> 5 [] OTHER -> 6

(***************************************************************************)
(* mesh.Buffer: id -> decoded array, least recently used first, evicted    *)
(* from the front once more than the budget is held.                       *)
(***************************************************************************)
buffer_keys(buf) == {buf[i].key : i \in 1 .. Len(buf)}

buffer_contains(buf, key) == key \in buffer_keys(buf)

buffer_index(buf, key) == CHOOSE i \in 1 .. Len(buf) : buf[i].key = key

buffer_value(buf, key) == buf[buffer_index(buf, key)].value

\* get: the entry moves to the most recently used end.
buffer_get(buf, key) ==
    LET i == buffer_index(buf, key)
    IN  SubSeq(buf, 1, i - 1) \o SubSeq(buf, i + 1, Len(buf)) \o <<buf[i]>>

buffer_evict(buf, cap) ==
    IF Len(buf) > cap THEN SubSeq(buf, Len(buf) - cap + 1, Len(buf)) ELSE buf

\* add: store under the key, then evict the oldest entries over the budget.
buffer_add(buf, cap, key, value) ==
    LET entry == [key |-> key, value |-> value]
        stored == IF buffer_contains(buf, key)
                  THEN [buf EXCEPT ![buffer_index(buf, key)] = entry]
                  ELSE Append(buf, entry)
    IN  buffer_evict(stored, cap)

(***************************************************************************)
(* InstaSeis.__init__ and _find_and_open_files.                            *)
(***************************************************************************)
NoDb == [state |-> "none", error |-> None, reciprocal |-> FALSE, meshes |-> {},
         parsed_mesh |-> None, collection |-> None, dump_type |-> None,
         strain_cap |-> 0, displ_cap |-> 0]

OpenFailure(error) == [NoDb EXCEPT !.state = "failed", !.error = error]

find_and_open_files_reciprocal(f, size) ==
    LET x_exists == file_exists(f, "PX")
        z_exists == file_exists(f, "PZ")
        bwd(ms, parsed) ==
            [NoDb EXCEPT !.state = "open", !.meshes = ms, !.parsed_mesh = parsed,
                         !.collection = "MeshCollection_bwd",
                         !.strain_cap = size, !.displ_cap = 0]
    IN  IF ~dir_exists(f, "PX") /\ ~dir_exists(f, "PZ")
        THEN OpenFailure("ValueError: Expecting the 'PX' or 'PZ' subfolders")
        ELSE IF x_exists /\ z_exists THEN bwd({"px", "pz"}, "px")
        ELSE IF x_exists THEN bwd({"px"}, "px")
        ELSE IF z_exists THEN bwd({"pz"}, "pz")
        ELSE OpenFailure("ValueError: ordered_output.nc4 files must exist")

fwd_collection(size) ==
    [NoDb EXCEPT !.state = "open", !.meshes = {"m1", "m2", "m3", "m4"},
                 !.parsed_mesh = "m1", !.collection = "MeshCollection_fwd",
                 !.strain_cap = 0, !.displ_cap = size]

\* A forward open that falls back to the PX/PZ branch when a subfolder is missing.
find_and_open_files_forward_fallback(f, size) ==
    IF \E d \in FwdDirs : ~dir_exists(f, d)
    THEN find_and_open_files_reciprocal(f, size)
    ELSE IF \A d \in FwdDirs : file_exists(f, d)
    THEN fwd_collection(size)
    ELSE OpenFailure("ValueError: ordered_output.nc4 files must exist")

find_and_open_files_forward(f, size) ==
    IF \E d \in FwdDirs : ~dir_exists(f, d)
    THEN OpenFailure("ValueError: Expecting the four elemental moment tensor subfolders")
    ELSE IF \A d \in FwdDirs : file_exists(f, d)
    THEN fwd_collection(size)
    ELSE OpenFailure("ValueError: ordered_output.nc4 files must exist")

find_and_open_files(f, reciprocal, size) ==
    IF reciprocal
    THEN find_and_open_files_reciprocal(f, size)
    ELSE find_and_open_files_forward(f, size)

EmptyBuffers == [m \in MeshNames |-> <<>>]
NoDecodes == [field \in {"strain", "displ"} |-> [m \in MeshNames |-> [e \in Elems |-> 0]]]
NoLast == [kind |-> "none"]

\* InstaSeis(db_path, buffer_size_in_mb, reciprocal): the handle keeps the mode
\* it was asked for and the dump type of the parsed mesh.
Open(reciprocal, buffer_size) ==
    /\ db.state = "none"
    /\ LET opened == find_and_open_files(fs, reciprocal, buffer_size)
       IN  db' = [opened EXCEPT !.reciprocal = reciprocal,
                                !.dump_type = IF opened.state = "open"
                                              THEN fs.dump_type ELSE None]
    /\ UNCHANGED <<fs, strain_buffer, displ_buffer, decodes, nq, last, procs>>

InitOpen ==
    /\ fs \in FileSystems
    /\ db = NoDb
    /\ strain_buffer = EmptyBuffers
    /\ displ_buffer = EmptyBuffers
    /\ decodes = NoDecodes
    /\ nq = 0
    /\ last = NoLast
    /\ procs = <<>>

NextOpen == \E reciprocal \in BOOLEAN, size \in 0 .. MaxBufEntries : Open(reciprocal, size)

SpecOpen == InitOpen /\ [][NextOpen]_vars

\* C1: a forward-mode open (reciprocal=False) produces a handle only if all four
\* elemental subfolders and their Data/ordered_output.nc4 files exist; if any is
\* missing it raises a ValueError, produces no handle, and never takes the PX/PZ
\* branch.
C1_ForwardOpenNeedsAllFour ==
    (db.state # "none" /\ ~db.reciprocal) =>
        LET all_four == \A d \in FwdDirs : dir_exists(fs, d) /\ file_exists(fs, d)
        IN  /\ db.state = "open" <=> all_four
            /\ db.state = "open" =>
                   db.collection = "MeshCollection_fwd"
                   /\ db.meshes = {"m1", "m2", "m3", "m4"}
            /\ ~all_four =>
                   /\ db.state = "failed"
                   /\ db.error \in {"ValueError: Expecting the four elemental moment tensor subfolders",
                                    "ValueError: ordered_output.nc4 files must exist"}
                   /\ db.meshes = {}
                   /\ db.collection # "MeshCollection_bwd"

\* A forward open of a database that has PX and PZ but lacks an elemental subfolder.
C1_Witness ==
    /\ db.state = "failed" /\ ~db.reciprocal
    /\ file_exists(fs, "PX") /\ file_exists(fs, "PZ")
    /\ \E d \in FwdDirs : ~dir_exists(fs, d)
    /\ \E d \in FwdDirs : file_exists(fs, d)

(***************************************************************************)
(* Sources and receivers (instaseis.source) and the rotations module.      *)
(***************************************************************************)

Cos(q) == CASE q % 4 = 0 -> 1 [] q % 4 = 1 -> 0 [] q % 4 = 2 -> -1 [] OTHER -> 0
Sin(q) == CASE q % 4 = 0 -> 0 [] q % 4 = 1 -> 1 [] q % 4 = 2 -> 0 [] OTHER -> -1

Abs(x) == IF x < 0 THEN -x ELSE x

Vec3(a, b, c) == [i \in 0 .. 2 |-> CASE i = 0 -> a [] i = 1 -> b [] OTHER -> c]
Vec6(a, b, c, d, e, f) ==
    [i \in 0 .. 5 |-> CASE i = 0 -> a [] i = 1 -> b [] i = 2 -> c
                         [] i = 3 -> d [] i = 4 -> e [] OTHER -> f]

\* A symmetric tensor in Voigt order (xx, yy, zz, yz, xz, xy) seen from axes
\* turned by q quadrants about z.
rotate_symm_tensor_voigt_z(m, q) ==
    LET c == Cos(q)
        s == Sin(q)
    IN  Vec6(c * c * m[0] + 2 * c * s * m[5] + s * s * m[1],
             s * s * m[0] - 2 * c * s * m[5] + c * c * m[1],
             m[2],
             c * m[3] - s * m[4],
             c * m[4] + s * m[3],
             (c * c - s * s) * m[5] + c * s * (m[1] - m[0]))

rotate_symm_tensor_voigt_xyz_src_to_xyz_earth(m, lon) == rotate_symm_tensor_voigt_z(m, 4 - lon)
rotate_symm_tensor_voigt_xyz_earth_to_xyz_src(m, lon) == rotate_symm_tensor_voigt_z(m, lon)
rotate_symm_tensor_voigt_xyz_to_src(m, phi) == rotate_symm_tensor_voigt_z(m, phi)

rotate_vector_z(v, q) ==
    Vec3(Cos(q) * v[0] + Sin(q) * v[1], Cos(q) * v[1] - Sin(q) * v[0], v[2])

rotate_vector_xyz_src_to_xyz_earth(v, lon) == rotate_vector_z(v, 4 - lon)
rotate_vector_xyz_earth_to_xyz_src(v, lon) == rotate_vector_z(v, lon)
rotate_vector_xyz_to_src(v, phi) == rotate_vector_z(v, phi)

\* (s, phi, z) components of a vector turned into north, east and up.
rotate_vector_src_to_NEZ(v, phi, src_lon, rec_lon) ==
    LET q == phi + rec_lon - src_lon + 4
        h == Vec3(Cos(q) * v[0] - Sin(q) * v[1], Sin(q) * v[0] + Cos(q) * v[1], v[2])
    IN  Vec3(-h[0], h[1], h[2])

\* Source.tensor is (m_rr, m_tt, m_pp, m_rt, m_rp, m_tp); tensor_voigt is the
\* same tensor in (tt, pp, rr, rp, rt, tp) order.
tensor_voigt(tensor) ==
    Vec6(tensor[1], tensor[2], tensor[0], tensor[4], tensor[3], tensor[5])

NoSliprate == <<>>

MakeSource(kind, tensor, force, longitude, pt, phi) ==
    [kind |-> kind, tensor |-> tensor, force |-> force, longitude |-> longitude,
     pt |-> pt, phi |-> phi,
     has_sliprate |-> TRUE, sliprate |-> <<1, 2>>,
     has_dt |-> TRUE, dt |-> dt_db,
     has_time_shift |-> FALSE, time_shift |-> 0]

GenericTensor == Vec6(amplitude, 2 * amplitude, 3 * amplitude,
                      5 * amplitude, 7 * amplitude, 11 * amplitude)
UnitTensor(k) == [i \in 0 .. 5 |-> IF i = k THEN amplitude ELSE 0]
NoTensor == [i \in 0 .. 5 |-> 0]
NoForce == Vec3(0, 0, 0)

\* Moment-tensor sources in four places: point 0 lies in its nearest element,
\* point 1 lies in its third and fifth nearest, point 2 only farther away than
\* the candidates looked at, point 3 in no element.
SrcA == MakeSource("Source", GenericTensor, NoForce, 1, 0, 1)
SrcB == MakeSource("Source", GenericTensor, NoForce, 0, 1, 2)
SrcUnit == MakeSource("Source", UnitTensor(3), NoForce, 0, 0, 0)
SrcFar == MakeSource("Source", GenericTensor, NoForce, 0, 2, 3)
SrcOutside == MakeSource("Source", GenericTensor, NoForce, 0, 3, 0)
SrcForce == MakeSource("ForceSource", NoTensor,
                       Vec3(amplitude, 2 * amplitude, 3 * amplitude), 1, 0, 1)
\* Something that is neither a Source nor a ForceSource.
SrcOther == MakeSource("Receiver", NoTensor, NoForce, 0, 0, 0)
\* Sources whose source time function cannot be reconvolved.
SrcNoStf == [SrcA EXCEPT !.has_sliprate = FALSE, !.sliprate = NoSliprate]
SrcNoDt == [SrcA EXCEPT !.has_dt = FALSE, !.dt = 0]
SrcBadDt == [SrcA EXCEPT !.dt = dt_db + 20]
SrcNearDt == [SrcA EXCEPT !.dt = dt_db - 5, !.sliprate = <<2, 0, 1>>]
SrcShifted == [SrcA EXCEPT !.has_time_shift = TRUE, !.time_shift = 1]
\* Sources in no element that are unsupported or cannot be reconvolved.
SrcForceOutside == [SrcForce EXCEPT !.pt = 3]
SrcOutsideNoStf == [SrcOutside EXCEPT !.has_sliprate = FALSE, !.sliprate = NoSliprate]

TheReceiver == [longitude |-> 1, station |-> "STA", network |-> "NW"]

\* rotations.rotate_frame_rd: the query point in the frame of the database.
rotate_frame_rd(src, rec) == [pt |-> src.pt, phi |-> src.phi]

(***************************************************************************)
(* The parsed mesh: spatial index, element geometry, nodal ids.            *)
(***************************************************************************)

\* All elements, nearest to the point first.
Nearest(pt) == [i \in 1 .. NElem |-> (pt * 2 + (i - 1) * 3) % NElem]

\* kdtree.query(point, k): the k nearest elements, nearest first.
kdtree_query(pt, k) == [i \in 1 .. k |-> Nearest(pt)[i]]

Containing(pt) ==
    CASE pt = 0 -> {Nearest(pt)[1]}
      [] pt = 1 -> {Nearest(pt)[3], Nearest(pt)[5]}
      [] pt = 2 -> {Nearest(pt)[NElem]}
      [] OTHER -> {}

\* finite_elem_mapping.inside_element with tolerance 1e-3: whether the inverse
\* mapping puts the point in the reference square, and the node it falls on.
inside_element(pt, idx) ==
    [isin |-> idx \in Containing(pt),
     xi |-> (pt + idx) % (npol + 1),
     eta |-> (2 * pt + idx + 1) % (npol + 1)]

k_map(dump_type) == IF dump_type = "displ_only" THEN 6 ELSE 1

axis_of(idx) == idx % 3 = 0

\* sem_mesh[idx]: the nodal ids of an element, as a (npol+1) x (npol+1) grid.
sem_mesh(idx) ==
    [ipol \in 0 .. npol |-> [jpol \in 0 .. npol |->
        idx * (npol + 1) * (npol + 1) + ipol * (npol + 1) + jpol]]

\* gll_point_ids.flatten(): row-major.
flatten(grid) ==
    [k \in 0 .. ((npol + 1) * (npol + 1) - 1) |-> grid[k \div (npol + 1)][k % (npol + 1)]]

\* The reference rigidity, in GPa.
DEFAULT_MU == 32

\* mesh_mu[node]: the rigidity at a node, in GPa.
mesh_mu(node) == DEFAULT_MU * (1 + (node % 3))

\* The stored series: sample t of variable number v at a node (or element).
Snapshot(mesh, v, t, where) == ((MeshNum(mesh) * 7 + where * 3 + v * 5 + t * 11) % 17) - 8

\* Monopole runs store no azimuthal displacement and no s-phi or z-phi strain.
has_displ_var(mesh, i) == i # 1 \/ excitation_type(mesh) # "monopole"
has_strain_var(mesh, i) == i \notin {3, 4} \/ excitation_type(mesh) # "monopole"

(***************************************************************************)
(* Locating the element.                                                   *)
(***************************************************************************)
RECURSIVE inside_loop(_, _, _)
\* The for loop over nextpoints[1]: test the candidates in order, stop at the
\* first one the point is inside.
inside_loop(pt, nextpoints, i) ==
    IF i > Len(nextpoints)
    THEN [found |-> FALSE, id_elem |-> -1, tested |-> nextpoints, xi |-> 0, eta |-> 0]
    ELSE LET r == inside_element(pt, nextpoints[i])
         IN  IF r.isin
             THEN [found |-> TRUE, id_elem |-> nextpoints[i],
                   tested |-> SubSeq(nextpoints, 1, i), xi |-> r.xi, eta |-> r.eta]
             ELSE inside_loop(pt, nextpoints, i + 1)

\* A locator that takes the nearest candidate without testing it.
locate_unchecked(dump_type, pt) ==
    LET nextpoints == kdtree_query(pt, k_map(dump_type))
        r == inside_element(pt, nextpoints[1])
    IN  [error |-> None, id_elem |-> nextpoints[1],
         tested |-> IF dump_type = "displ_only" THEN <<nextpoints[1]>> ELSE <<>>,
         has_geometry |-> dump_type = "displ_only",
         xi |-> IF dump_type = "displ_only" THEN r.xi ELSE 0,
         eta |-> IF dump_type = "displ_only" THEN r.eta ELSE 0,
         nextpoints |-> nextpoints]

\* A locator that keeps the last containing candidate instead of the first.
locate_last(dump_type, pt) ==
    LET nextpoints == kdtree_query(pt, k_map(dump_type))
        hits == {i \in 1 .. Len(nextpoints) : inside_element(pt, nextpoints[i]).isin}
        i == CHOOSE j \in hits : \A h \in hits : h <= j
    IN  IF dump_type = "displ_only"
        THEN IF hits = {}
             THEN [error |-> "ValueError: Element not found", id_elem |-> -1,
                   tested |-> nextpoints, has_geometry |-> FALSE, xi |-> 0, eta |-> 0,
                   nextpoints |-> nextpoints]
             ELSE [error |-> None, id_elem |-> nextpoints[i], tested |-> nextpoints,
                   has_geometry |-> TRUE, xi |-> inside_element(pt, nextpoints[i]).xi,
                   eta |-> inside_element(pt, nextpoints[i]).eta,
                   nextpoints |-> nextpoints]
        ELSE [error |-> None, id_elem |-> nextpoints[1], tested |-> <<>>,
              has_geometry |-> FALSE, xi |-> 0, eta |-> 0, nextpoints |-> nextpoints]

\* A locator that settles for the nearest candidate when none contains the
\* point.
locate_nearest_on_miss(dump_type, pt) ==
    LET nextpoints == kdtree_query(pt, k_map(dump_type))
        r == inside_loop(pt, nextpoints, 1)
    IN  IF dump_type = "displ_only"
        THEN [error |-> None, id_elem |-> IF r.found THEN r.id_elem ELSE nextpoints[1],
              tested |-> r.tested, has_geometry |-> TRUE, xi |-> r.xi, eta |-> r.eta,
              nextpoints |-> nextpoints]
        ELSE [error |-> None, id_elem |-> nextpoints[1], tested |-> <<>>,
              has_geometry |-> FALSE, xi |-> 0, eta |-> 0, nextpoints |-> nextpoints]

locate(dump_type, pt) ==
    LET nextpoints == kdtree_query(pt, k_map(dump_type))
    IN  IF dump_type = "displ_only"
        THEN LET r == inside_loop(pt, nextpoints, 1)
             IN  IF r.found
                 THEN [error |-> None, id_elem |-> r.id_elem, tested |-> r.tested,
                       has_geometry |-> TRUE, xi |-> r.xi, eta |-> r.eta,
                       nextpoints |-> nextpoints]
                 ELSE [error |-> "ValueError: Element not found", id_elem |-> -1,
                       tested |-> r.tested, has_geometry |-> FALSE, xi |-> 0, eta |-> 0,
                       nextpoints |-> nextpoints]
        ELSE [error |-> None, id_elem |-> nextpoints[1], tested |-> <<>>,
              has_geometry |-> FALSE, xi |-> 0, eta |-> 0, nextpoints |-> nextpoints]

(***************************************************************************)
(* Decoding and interpolating the fields of one element.                   *)
(***************************************************************************)
\* temp[:, ipol * 5 + jpol]
flat_index(ipol, jpol) == ipol * 5 + jpol

\* The decode loop reads past the element's node list.
index_error(gll_point_ids) ==
    \E ipol \in 0 .. npol, jpol \in 0 .. npol :
        flat_index(ipol, jpol) \notin DOMAIN flatten(gll_point_ids)

\* utemp[:, jpol, ipol, i] = temp[:, ipol * 5 + jpol] for every stored variable.
load_displacement(mesh, gll_point_ids) ==
    LET ids == flatten(gll_point_ids)
    IN  [t \in Times |-> [jpol \in 0 .. npol |-> [ipol \in 0 .. npol |-> [i \in 0 .. 2 |->
            IF has_displ_var(mesh, i)
            THEN Snapshot(mesh, i, t, ids[flat_index(ipol, jpol)])
            ELSE 0]]]]

\* sem_derivatives.strain_{monopole,dipole,quadpole}_td: the six strain
\* components at every node, from differences of the nodal displacement.
strain_td(excitation, utemp, n, axis) ==
    [t \in Times |-> [a \in 0 .. n |-> [b \in 0 .. n |->
        LET u == utemp[t]
            na == (a + 1) % (n + 1)
            nb == (b + 1) % (n + 1)
            da(c) == u[na][b][c] - u[a][b][c]
            db_(c) == u[a][nb][c] - u[a][b][c]
            order == CASE excitation = "monopole" -> 0
                       [] excitation = "dipole" -> 1
                       [] OTHER -> 2
        IN  Vec6(da(0),
                 IF axis THEN da(0) - order * u[a][b][1] ELSE u[a][b][0] - order * u[a][b][1],
                 db_(2),
                 IF order = 0 THEN 0 ELSE db_(1) + order * u[a][b][2],
                 db_(0) + da(2),
                 IF order = 0 THEN 0 ELSE da(1) + order * u[a][b][0] - u[a][b][1])]]]

\* spectral_basis.lagrange_interpol_2D_td at a collocation node: component i of
\* the field at node (xi, eta), for every time sample.
lagrange_interpol_2D_td(field, i, xi, eta) == [t \in Times |-> field[t][xi][eta][i]]

\* What the decode loop of __get_displacement and of __get_strain_interp yields
\* for each element of each mesh: it depends on the mesh and the element only,
\* so it is tabulated once, element idx at position idx + 1.
RECURSIVE displacement_of(_, _)
displacement_of(mesh, n) ==
    IF n = 0 THEN <<>>
    ELSE Append(displacement_of(mesh, n - 1), load_displacement(mesh, sem_mesh(n - 1)))

displacement_blocks ==
    [px |-> displacement_of("px", NElem), pz |-> displacement_of("pz", NElem),
     m1 |-> displacement_of("m1", NElem), m2 |-> displacement_of("m2", NElem),
     m3 |-> displacement_of("m3", NElem), m4 |-> displacement_of("m4", NElem)]

decode_displacement(mesh, id_elem) == displacement_blocks[mesh][id_elem + 1]

RECURSIVE strain_of(_, _)
strain_of(mesh, n) ==
    IF n = 0 THEN <<>>
    ELSE Append(strain_of(mesh, n - 1),
                strain_td(excitation_type(mesh), decode_displacement(mesh, n - 1), npol,
                          axis_of(n - 1)))

strain_blocks ==
    [px |-> strain_of("px", NElem), pz |-> strain_of("pz", NElem),
     m1 |-> strain_of("m1", NElem), m2 |-> strain_of("m2", NElem),
     m3 |-> strain_of("m3", NElem), m4 |-> strain_of("m4", NElem)]

decode_strain(mesh, id_elem) == strain_blocks[mesh][id_elem + 1]

NoValue == <<>>
FetchError(error, buf) == [error |-> error, value |-> NoValue, buf |-> buf, decoded |-> FALSE]

\* Interpolation followed by the sign flip of the non-monopole shear components.
interpolate_strain(mesh, strain, xi, eta) ==
    LET interp == [i \in 0 .. 5 |-> lagrange_interpol_2D_td(strain, i, xi, eta)]
        monopole == excitation_type(mesh) = "monopole"
    IN  [t \in Times |-> [i \in 0 .. 5 |->
            IF ~monopole /\ i \in {3, 5} THEN -1 * interp[i][t] ELSE interp[i][t]]]

\* A fetch that never looks in the buffer: it decodes on every call.
get_strain_interp_uncached(mesh, buf, cap, id_elem, gll_point_ids, axis, xi, eta) ==
    LET strain == decode_strain(mesh, id_elem)
    IN  [error |-> None,
         value |-> interpolate_strain(mesh, strain, xi, eta),
         buf |-> buffer_add(buf, cap, id_elem, strain),
         decoded |-> TRUE]

\* A variant that flips the sign of the shear components in the buffered block
\* itself before interpolating.
get_strain_interp_inplace(mesh, buf, cap, id_elem, gll_point_ids, axis, xi, eta) ==
    LET miss == ~buffer_contains(buf, id_elem)
        strain == IF miss THEN decode_strain(mesh, id_elem)
                  ELSE buffer_value(buf, id_elem)
        monopole == excitation_type(mesh) = "monopole"
        flipped == [t \in Times |-> [a \in 0 .. npol |-> [b \in 0 .. npol |-> [i \in 0 .. 5 |->
                       IF ~monopole /\ i \in {3, 5}
                       THEN -1 * strain[t][a][b][i] ELSE strain[t][a][b][i]]]]]
        held == IF miss THEN buffer_add(buf, cap, id_elem, strain)
                ELSE buffer_get(buf, id_elem)
    IN  [error |-> None,
         value |-> [t \in Times |-> [i \in 0 .. 5 |-> flipped[t][xi][eta][i]]],
         buf |-> [k \in DOMAIN held |->
                    IF held[k].key = id_elem THEN [held[k] EXCEPT !.value = flipped]
                    ELSE held[k]],
         decoded |-> miss]

get_strain_interp(mesh, buf, cap, id_elem, gll_point_ids, axis, xi, eta) ==
    IF ~buffer_contains(buf, id_elem)
    THEN IF index_error(gll_point_ids)
         THEN FetchError("IndexError", buf)
         ELSE LET strain == decode_strain(mesh, id_elem)
              IN  [error |-> None,
                   value |-> interpolate_strain(mesh, strain, xi, eta),
                   buf |-> buffer_add(buf, cap, id_elem, strain),
                   decoded |-> TRUE]
    ELSE LET strain == buffer_value(buf, id_elem)
         IN  [error |-> None,
              value |-> interpolate_strain(mesh, strain, xi, eta),
              buf |-> buffer_get(buf, id_elem),
              decoded |-> FALSE]

\* strain_temp and its transformation to the Voigt mapping.
load_strain(mesh, id_elem) ==
    LET strain_temp == [t \in Times |-> [i \in 0 .. 5 |->
                           IF has_strain_var(mesh, i) THEN Snapshot(mesh, i, t, id_elem) ELSE 0]]
    IN  [t \in Times |->
            Vec6(strain_temp[t][0],
                 strain_temp[t][2],
                 strain_temp[t][5] - strain_temp[t][0] - strain_temp[t][2],
                 -1 * strain_temp[t][4],
                 strain_temp[t][1],
                 -1 * strain_temp[t][3])]

get_strain(mesh, buf, cap, id_elem) ==
    IF ~buffer_contains(buf, id_elem)
    THEN LET final_strain == load_strain(mesh, id_elem)
         IN  [error |-> None, value |-> final_strain,
              buf |-> buffer_add(buf, cap, id_elem, final_strain), decoded |-> TRUE]
    ELSE [error |-> None, value |-> buffer_value(buf, id_elem),
          buf |-> buffer_get(buf, id_elem), decoded |-> FALSE]

interpolate_displacement(utemp, xi, eta) ==
    LET interp == [i \in 0 .. 2 |-> lagrange_interpol_2D_td(utemp, i, xi, eta)]
    IN  [t \in Times |-> [i \in 0 .. 2 |-> interp[i][t]]]

get_displacement(mesh, buf, cap, id_elem, gll_point_ids, xi, eta) ==
    IF ~buffer_contains(buf, id_elem)
    THEN IF index_error(gll_point_ids)
         THEN FetchError("IndexError", buf)
         ELSE LET utemp == decode_displacement(mesh, id_elem)
              IN  [error |-> None,
                   value |-> interpolate_displacement(utemp, xi, eta),
                   buf |-> buffer_add(buf, cap, id_elem, utemp),
                   decoded |-> TRUE]
    ELSE LET utemp == buffer_value(buf, id_elem)
         IN  [error |-> None,
              value |-> interpolate_displacement(utemp, xi, eta),
              buf |-> buffer_get(buf, id_elem),
              decoded |-> FALSE]

(***************************************************************************)
(* get_seismograms: fetching, rotating and contracting.                    *)
(***************************************************************************)
Range(seq) == {seq[i] : i \in DOMAIN seq}
Zeros == [t \in Times |-> 0]
NoData == [l \in {} |-> <<>>]

needs_z(components) == "Z" \in Range(components)
needs_x(components) == \E comp \in {"N", "E", "R", "T"} : comp \in Range(components)

NotFetched(buf) == [error |-> None, value |-> NoValue, buf |-> buf, decoded |-> FALSE]
NoneMesh(buf) == FetchError("AttributeError: 'NoneType' object has no attribute", buf)

\* A fetch that takes the field of a mesh the database does not have to be zero.
fetch_strain_absent_as_zero(d, mesh, buf, loc) ==
    IF mesh \notin d.meshes
    THEN [error |-> None, value |-> [t \in Times |-> [i \in 0 .. 5 |-> 0]], buf |-> buf,
          decoded |-> FALSE]
    ELSE IF d.dump_type = "displ_only"
    THEN get_strain_interp(mesh, buf, d.strain_cap, loc.id_elem, sem_mesh(loc.id_elem),
                           axis_of(loc.id_elem), loc.xi, loc.eta)
    ELSE get_strain(mesh, buf, d.strain_cap, loc.id_elem)

\* The strain of one mesh at the located element, by dump type.
fetch_strain(d, mesh, buf, loc) ==
    IF mesh \notin d.meshes
    THEN NoneMesh(buf)
    ELSE IF d.dump_type = "displ_only"
    THEN get_strain_interp(mesh, buf, d.strain_cap, loc.id_elem, sem_mesh(loc.id_elem),
                           axis_of(loc.id_elem), loc.xi, loc.eta)
    ELSE get_strain(mesh, buf, d.strain_cap, loc.id_elem)

fetch_displacement(d, mesh, buf, loc) ==
    IF mesh \notin d.meshes
    THEN NoneMesh(buf)
    ELSE get_displacement(mesh, buf, d.displ_cap, loc.id_elem, sem_mesh(loc.id_elem),
                          loc.xi, loc.eta)

fac_1_map(comp, phi) == IF comp = "N" THEN Cos(phi) ELSE Sin(phi)
fac_2_map_plus(comp, phi) == IF comp = "N" THEN Sin(phi) ELSE Cos(phi)
fac_2_map(comp, phi) == IF comp = "N" THEN -1 * Sin(phi) ELSE Cos(phi)

RECURSIVE accumulate(_, _, _, _)
\* for i in xrange(3): final += mij[i] * strain_z[:, i]
accumulate(final, mij, strain, i) ==
    IF i > 2 THEN final
    ELSE accumulate([t \in Times |-> final[t] + mij[i] * strain[t][i]], mij, strain, i + 1)

tensor_Z(mij, strain_z) ==
    LET final == accumulate(Zeros, mij, strain_z, 0)
    IN  [t \in Times |-> final[t] + 2 * mij[4] * strain_z[t][4]]

tensor_R(mij, strain_x) ==
    [t \in Times |-> 0 - strain_x[t][0] * mij[0] * 1 - strain_x[t][1] * mij[1] * 1
                       - strain_x[t][2] * mij[2] * 1 - strain_x[t][4] * mij[4] * 2]

tensor_T(mij, strain_x) ==
    [t \in Times |-> strain_x[t][3] * mij[3] * 2 + strain_x[t][5] * mij[5] * 2]

tensor_EN(comp, mij, strain_x, phi) ==
    LET fac_1 == fac_1_map(comp, phi)
        fac_2 == fac_2_map(comp, phi)
        final == [t \in Times |->
                     strain_x[t][0] * mij[0] * 1 * fac_1 + strain_x[t][1] * mij[1] * 1 * fac_1
                     + strain_x[t][2] * mij[2] * 1 * fac_1 + strain_x[t][3] * mij[3] * 2 * fac_2
                     + strain_x[t][4] * mij[4] * 2 * fac_1 + strain_x[t][5] * mij[5] * 2 * fac_2]
    IN  IF comp = "N" THEN [t \in Times |-> -1 * final[t]] ELSE final

force_Z(force, displ_z) ==
    [t \in Times |-> displ_z[t][0] * force[0] + displ_z[t][2] * force[2]]

force_R(force, displ_x) ==
    [t \in Times |-> displ_x[t][0] * force[0] + displ_x[t][2] * force[2]]

force_T(force, displ_x) == [t \in Times |-> displ_x[t][1] * force[1]]

force_EN(comp, force, displ_x, phi) ==
    LET fac_1 == fac_1_map(comp, phi)
        fac_2 == fac_2_map(comp, phi)
        final == [t \in Times |-> displ_x[t][0] * force[0] * fac_1
                                  + displ_x[t][1] * force[1] * fac_2
                                  + displ_x[t][2] * force[2] * fac_1]
    IN  IF comp = "N" THEN [t \in Times |-> -1 * final[t]] ELSE final

\* What the contraction stage hands on: the raw series per label, the meshes
\* whose fetch function was called (in call order), which of them decoded, the
\* buffers afterwards, and the rotated tensor and interpolated fields used.
Stage(error, data, fetched, decoded, sbuf, dbuf, mij, field_z, field_x) ==
    [error |-> error, data |-> data, fetched |-> fetched, decoded |-> decoded,
     sbuf |-> sbuf, dbuf |-> dbuf, mij |-> mij, field_z |-> field_z, field_x |-> field_x]

\* Reading every mesh a component could need, whatever is requested.
reciprocal_source_eager(d, sbuf, dbuf, src, rec, components, loc, phi) ==
    LET fz == IF "pz" \in d.meshes THEN fetch_strain(d, "pz", sbuf["pz"], loc)
              ELSE NotFetched(sbuf["pz"])
        fx == IF "px" \in d.meshes THEN fetch_strain(d, "px", sbuf["px"], loc)
              ELSE NotFetched(sbuf["px"])
        mij == [i \in 0 .. 5 |->
                   rotate_symm_tensor_voigt_xyz_to_src(
                       rotate_symm_tensor_voigt_xyz_earth_to_xyz_src(
                           rotate_symm_tensor_voigt_xyz_src_to_xyz_earth(
                               tensor_voigt(src.tensor), src.longitude),
                           rec.longitude), phi)[i] \div amplitude]
        missing == (needs_z(components) /\ "pz" \notin d.meshes)
                   \/ (needs_x(components) /\ "px" \notin d.meshes)
        data == [comp \in Range(components) |->
                    CASE comp = "Z" -> tensor_Z(mij, fz.value)
                      [] comp = "R" -> tensor_R(mij, fx.value)
                      [] comp = "T" -> tensor_T(mij, fx.value)
                      [] OTHER -> tensor_EN(comp, mij, fx.value, phi)]
    IN  IF missing
        THEN Stage(NoneMesh(<<>>).error, NoData, <<>>, {}, sbuf, dbuf, NoTensor,
                   NoValue, NoValue)
        ELSE Stage(None, data,
                   (IF "pz" \in d.meshes THEN <<"pz">> ELSE <<>>)
                       \o (IF "px" \in d.meshes THEN <<"px">> ELSE <<>>),
                   {m \in {"pz", "px"} : (m = "pz" /\ fz.decoded) \/ (m = "px" /\ fx.decoded)},
                   [sbuf EXCEPT !["pz"] = fz.buf, !["px"] = fx.buf], dbuf, mij,
                   fz.value, fx.value)

\* isinstance(source, Source) in reciprocal mode: the vertical strain, then
\* the horizontal strain, then the rotated tensor and the contraction.
reciprocal_source(d, sbuf, dbuf, src, rec, components, loc, phi) ==
    LET fetched_z == IF needs_z(components) THEN <<"pz">> ELSE <<>>
        fetched_x == fetched_z \o (IF needs_x(components) THEN <<"px">> ELSE <<>>)
        decoded_z(fz) == IF fz.decoded THEN {"pz"} ELSE {}
        decoded_x(fz, fx) == decoded_z(fz) \cup (IF fx.decoded THEN {"px"} ELSE {})
        sbuf_z(fz) == [sbuf EXCEPT !["pz"] = fz.buf]
        sbuf_x(fz, fx) == [sbuf EXCEPT !["pz"] = fz.buf, !["px"] = fx.buf]
        mij_1 == rotate_symm_tensor_voigt_xyz_src_to_xyz_earth(
                     tensor_voigt(src.tensor), src.longitude)
        mij_2 == rotate_symm_tensor_voigt_xyz_earth_to_xyz_src(mij_1, rec.longitude)
        mij_3 == rotate_symm_tensor_voigt_xyz_to_src(mij_2, phi)
        contract(fz, fx, mij) ==
            Stage(None,
                  [comp \in Range(components) |->
                      CASE comp = "Z" -> tensor_Z(mij, fz.value)
                        [] comp = "R" -> tensor_R(mij, fx.value)
                        [] comp = "T" -> tensor_T(mij, fx.value)
                        [] OTHER -> tensor_EN(comp, mij, fx.value, phi)],
                  fetched_x, decoded_x(fz, fx), sbuf_x(fz, fx), dbuf, mij,
                  fz.value, fx.value)
        with_strain_x(fz, fx) ==
            IF fx.error # None
            THEN Stage(fx.error, NoData, fetched_x, decoded_x(fz, fx), sbuf_x(fz, fx),
                       dbuf, NoTensor, fz.value, NoValue)
            ELSE contract(fz, fx, [i \in 0 .. 5 |-> mij_3[i] \div amplitude])
        with_strain_z(fz) ==
            IF fz.error # None
            THEN Stage(fz.error, NoData, fetched_z, decoded_z(fz), sbuf_z(fz), dbuf,
                       NoTensor, NoValue, NoValue)
            ELSE with_strain_x(fz, IF needs_x(components)
                                   THEN fetch_strain(d, "px", sbuf["px"], loc)
                                   ELSE NotFetched(sbuf["px"]))
    IN  with_strain_z(IF needs_z(components)
                      THEN fetch_strain(d, "pz", sbuf["pz"], loc)
                      ELSE NotFetched(sbuf["pz"]))

\* isinstance(source, ForceSource) in reciprocal mode.
reciprocal_force(d, sbuf, dbuf, src, rec, components, loc, phi) ==
    LET fetched_z == IF needs_z(components) THEN <<"pz">> ELSE <<>>
        fetched_x == fetched_z \o (IF needs_x(components) THEN <<"px">> ELSE <<>>)
        decoded_z(fz) == IF fz.decoded THEN {"pz"} ELSE {}
        decoded_x(fz, fx) == decoded_z(fz) \cup (IF fx.decoded THEN {"px"} ELSE {})
        dbuf_z(fz) == [dbuf EXCEPT !["pz"] = fz.buf]
        dbuf_x(fz, fx) == [dbuf EXCEPT !["pz"] = fz.buf, !["px"] = fx.buf]
        force_1 == rotate_vector_xyz_src_to_xyz_earth(src.force, src.longitude)
        force_2 == rotate_vector_xyz_earth_to_xyz_src(force_1, rec.longitude)
        force_3 == rotate_vector_xyz_to_src(force_2, phi)
        contract(fz, fx, force) ==
            Stage(None,
                  [comp \in Range(components) |->
                      CASE comp = "Z" -> force_Z(force, fz.value)
                        [] comp = "R" -> force_R(force, fx.value)
                        [] comp = "T" -> force_T(force, fx.value)
                        [] OTHER -> force_EN(comp, force, fx.value, phi)],
                  fetched_x, decoded_x(fz, fx), sbuf, dbuf_x(fz, fx),
                  [i \in 0 .. 5 |-> IF i < 3 THEN force[i] ELSE 0], fz.value, fx.value)
        with_displ_x(fz, fx) ==
            IF fx.error # None
            THEN Stage(fx.error, NoData, fetched_x, decoded_x(fz, fx), sbuf,
                       dbuf_x(fz, fx), NoTensor, fz.value, NoValue)
            ELSE contract(fz, fx, [i \in 0 .. 2 |-> force_3[i] \div amplitude])
        with_displ_z(fz) ==
            IF fz.error # None
            THEN Stage(fz.error, NoData, fetched_z, decoded_z(fz), sbuf, dbuf_z(fz),
                       NoTensor, NoValue, NoValue)
            ELSE with_displ_x(fz, IF needs_x(components)
                                  THEN fetch_displacement(d, "px", dbuf["px"], loc)
                                  ELSE NotFetched(dbuf["px"]))
    IN  IF d.dump_type # "displ_only"
        THEN Stage("ValueError: Force sources only in displ_only mode", NoData, <<>>, {},
                   sbuf, dbuf, NoTensor, NoValue, NoValue)
        ELSE with_displ_z(IF needs_z(components)
                          THEN fetch_displacement(d, "pz", dbuf["pz"], loc)
                          ELSE NotFetched(dbuf["pz"]))

\* arctan2(rotmesh_s, rotmesh_z), in quadrants.
rotmesh_colat(pt) == (pt + 1) % 4

RECURSIVE fetch_elemental(_, _, _, _, _, _)
\* displ_1 .. displ_4: the displacement of the four elemental meshes, in order.
fetch_elemental(d, meshes, i, dbuf, loc, acc) ==
    LET with_displ(f) ==
            [error |-> f.error,
             values |-> [m \in DOMAIN acc.values \cup {meshes[i]} |->
                            IF m = meshes[i] THEN f.value ELSE acc.values[m]],
             dbuf |-> [acc.dbuf EXCEPT ![meshes[i]] = f.buf],
             fetched |-> Append(acc.fetched, meshes[i]),
             decoded |-> acc.decoded \cup (IF f.decoded THEN {meshes[i]} ELSE {})]
        next(now) == IF now.error # None THEN now
                     ELSE fetch_elemental(d, meshes, i + 1, now.dbuf, loc, now)
    IN  IF i > Len(meshes)
        THEN acc
        ELSE next(with_displ(fetch_displacement(d, meshes[i], dbuf[meshes[i]], loc)))

\* A forward branch that serves databases of every dump type.
forward_unsupported_kind_only(d, src) == src.kind # "Source"

\* if not isinstance(source, Source) or self.dump_type != 'displ_only':
\* raise NotImplementedError
forward_unsupported(d, src) == src.kind # "Source" \/ d.dump_type # "displ_only"

\* A combination that weights the s and z components of the dipole response
\* with the factor of its phi component, and the other way round.
combine_elemental_swapped(mij, phi, displ_1, displ_2, displ_3, displ_4) ==
    LET fac_1_a == mij[3] * Cos(phi) + mij[4] * Sin(phi)
        fac_2_a == -1 * mij[3] * Sin(phi) + mij[4] * Cos(phi)
        fac_1_b == (mij[1] - mij[2]) * Cos(2 * phi) + 2 * mij[5] * Sin(2 * phi)
        fac_2_b == -1 * (mij[1] - mij[2]) * Sin(2 * phi) + 2 * mij[5] * Cos(2 * phi)
    IN  [t \in Times |->
            Vec3(displ_1[t][0] * mij[0] + displ_2[t][0] * (mij[1] + mij[2])
                     + displ_3[t][0] * fac_2_a + displ_4[t][0] * fac_1_b,
                 displ_3[t][1] * fac_1_a + displ_4[t][1] * fac_2_b,
                 displ_1[t][2] * mij[0] + displ_2[t][2] * (mij[1] + mij[2])
                     + displ_3[t][2] * fac_2_a + displ_4[t][2] * fac_1_b)]

\* final, in (s, phi, z) coordinates: the four elemental responses weighted by
\* the moment tensor and the azimuthal harmonics of order 0, 1 and 2.
combine_elemental(mij, phi, displ_1, displ_2, displ_3, displ_4) ==
    LET fac_1_a == mij[3] * Cos(phi) + mij[4] * Sin(phi)
        fac_2_a == -1 * mij[3] * Sin(phi) + mij[4] * Cos(phi)
        fac_1_b == (mij[1] - mij[2]) * Cos(2 * phi) + 2 * mij[5] * Sin(2 * phi)
        fac_2_b == -1 * (mij[1] - mij[2]) * Sin(2 * phi) + 2 * mij[5] * Cos(2 * phi)
    IN  [t \in Times |->
            Vec3(displ_1[t][0] * mij[0] + displ_2[t][0] * (mij[1] + mij[2])
                     + displ_3[t][0] * fac_1_a + displ_4[t][0] * fac_1_b,
                 displ_3[t][1] * fac_2_a + displ_4[t][1] * fac_2_b,
                 displ_1[t][2] * mij[0] + displ_2[t][2] * (mij[1] + mij[2])
                     + displ_3[t][2] * fac_1_a + displ_4[t][2] * fac_1_b)]

\* The forward branch: the combined field, then T and R from it and N, E, Z
\* from its rotation.
forward_source(d, sbuf, dbuf, src, rec, components, loc, phi, pt) ==
    LET mij == [i \in 0 .. 5 |-> src.tensor[i] \div amplitude]
        colat == rotmesh_colat(pt)
        nez_of(final) ==
            [t \in Times |->
                rotate_vector_src_to_NEZ(final[t], phi, src.longitude, rec.longitude)]
        data_of(final, nez) ==
            [comp \in Range(components) |->
                CASE comp = "T" -> [t \in Times |-> -1 * final[t][1]]
                  [] comp = "R" -> [t \in Times |-> final[t][0] * Cos(colat)
                                                    - final[t][2] * Sin(colat)]
                  [] comp = "N" -> [t \in Times |-> nez[t][0]]
                  [] comp = "E" -> [t \in Times |-> nez[t][1]]
                  [] OTHER -> [t \in Times |-> nez[t][2]]]
        rotated(final) == data_of(final, nez_of(final))
        with_displ(f) ==
            IF f.error # None
            THEN Stage(f.error, NoData, f.fetched, f.decoded, sbuf, f.dbuf, NoTensor,
                       NoValue, NoValue)
            ELSE Stage(None,
                       rotated(combine_elemental(mij, phi, f.values["m1"], f.values["m2"],
                                                 f.values["m3"], f.values["m4"])),
                       f.fetched, f.decoded, sbuf, f.dbuf, mij, NoValue, NoValue)
    IN  IF forward_unsupported(d, src)
        THEN Stage("NotImplementedError", NoData, <<>>, {}, sbuf, dbuf, NoTensor,
                   NoValue, NoValue)
        ELSE with_displ(fetch_elemental(d, <<"m1", "m2", "m3", "m4">>, 1, dbuf, loc,
                                        [error |-> None, values |-> NoData, dbuf |-> dbuf,
                                         fetched |-> <<>>, decoded |-> {}]))

(***************************************************************************)
(* get_seismograms: the per-component post-processing loop.                *)
(***************************************************************************)
RECURSIVE nextpow2(_)
\* obspy.signal.util.nextpow2: the smallest power of two not below i.
nextpow2(i) == IF i <= 1 THEN 1 ELSE 2 * nextpow2((i + 1) \div 2)

nfft == nextpow2(ndumps) * 2

\* The source time function the database was computed with: a unit impulse.
sliprate_db == <<1>>

\* numpy.fft.rfft(a, n): the input cropped or zero-padded to n samples.
padded(a, n) == [k \in 0 .. (n - 1) |-> IF k < Len(a) THEN a[k + 1] ELSE 0]

RECURSIVE circular_sum(_, _, _, _, _)
circular_sum(x, h, j, shift, k) ==
    IF k < 0 THEN 0
    ELSE x[k] * h[(j - k - shift + 2 * nfft) % nfft] + circular_sum(x, h, j, shift, k - 1)

\* irfft(rfft(data) * rfft(source.sliprate) * phase / rfft(self.sliprate))[:ndumps]:
\* dividing by the spectrum of the unit impulse changes nothing, the product of
\* the spectra is the circular convolution over nfft samples, and the phase
\* term delays it by time_shift / dt samples.
reconvolve(series, src) ==
    LET x == padded(series, nfft)
        h == padded(src.sliprate, nfft)
        shift == IF src.has_time_shift THEN src.time_shift ELSE 0
        full == [j \in 0 .. (nfft - 1) |-> circular_sum(x, h, j, shift, nfft - 1)]
    IN  [j \in 1 .. ndumps |-> full[j - 1]]

\* lanczos.lanczos_resamp for a new interval that is a multiple of the old one:
\* the kernel vanishes at every other old sample, so each new sample is the old
\* sample at that time.
lanczos_resamp(series, dt_old, dt_new) ==
    LET ratio == dt_new \div dt_old
        n_new == IF Len(series) = 0 THEN 0 ELSE ((Len(series) - 1) \div ratio) + 1
    IN  [k \in 1 .. n_new |-> series[(k - 1) * ratio + 1]]

NoDt == [given |-> FALSE, value |-> 0]
GivenDt(value) == [given |-> TRUE, value |-> value]

\* abs((source.dt - self.dt) / self.dt) > 1e-7
dt_incompatible(src) == Abs(src.dt - dt_db) * 10000000 > dt_db

\* A check that only looks at the sampling interval of the source.
trim_or_reconvolve_no_stf_check(series, src, remove_source_shift, reconvolve_stf) ==
    IF remove_source_shift /\ ~reconvolve_stf
    THEN [error |-> None, series |-> SubSeq(series, source_shift_samp + 1, Len(series))]
    ELSE IF reconvolve_stf
    THEN IF ~src.has_dt
         THEN [error |-> "RuntimeError: source has no source time function",
               series |-> series]
         ELSE IF dt_incompatible(src)
         THEN [error |-> "ValueError: dt of the source not compatible", series |-> series]
         ELSE [error |-> None, series |-> reconvolve(series, src)]
    ELSE [error |-> None, series |-> series]

\* The first step of the loop body for one component.
trim_or_reconvolve(series, src, remove_source_shift, reconvolve_stf) ==
    IF remove_source_shift /\ ~reconvolve_stf
    THEN [error |-> None, series |-> SubSeq(series, source_shift_samp + 1, Len(series))]
    ELSE IF reconvolve_stf
    THEN IF ~src.has_dt \/ ~src.has_sliprate
         THEN [error |-> "RuntimeError: source has no source time function",
               series |-> series]
         ELSE IF dt_incompatible(src)
         THEN [error |-> "ValueError: dt of the source not compatible", series |-> series]
         ELSE [error |-> None, series |-> reconvolve(series, src)]
    ELSE [error |-> None, series |-> series]

RECURSIVE post_process(_, _, _, _, _, _, _)
\* for comp in components: trim or reconvolve data[comp], then resample it.
post_process(data, components, i, src, remove_source_shift, reconvolve_stf, dt) ==
    IF i > Len(components)
    THEN [error |-> None, data |-> data]
    ELSE LET comp == components[i]
             first == trim_or_reconvolve(data[comp], src, remove_source_shift,
                                         reconvolve_stf)
             second == IF dt.given
                       THEN lanczos_resamp(first.series, dt_db, dt.value)
                       ELSE first.series
         IN  IF first.error # None
             THEN [error |-> first.error, data |-> data]
             ELSE post_process([data EXCEPT ![comp] = second], components, i + 1, src,
                               remove_source_shift, reconvolve_stf, dt)

(***************************************************************************)
(* get_seismograms as a whole, and its result.                             *)
(***************************************************************************)
\* A band code whose thresholds belong to the upper band.
get_band_code_exclusive(dt) ==
    IF dt > 1000000000 THEN "F"
    ELSE IF dt > 250000000 THEN "C"
    ELSE IF dt > 80000000 THEN "H"
    ELSE IF dt > 10000000 THEN "B"
    ELSE IF dt > 1000000 THEN "M"
    ELSE "L"

\* _get_band_code: sr = 1.0 / dt with dt in ticks of 1e-6 s, so sr <= 0.001 is
\* dt >= 1000 s, sr <= 0.004 is dt >= 250 s, sr <= 0.0125 is dt >= 80 s,
\* sr <= 0.1 is dt >= 10 s and sr <= 1 is dt >= 1 s.
get_band_code(dt) ==
    IF dt >= 1000000000 THEN "F"
    ELSE IF dt >= 250000000 THEN "C"
    ELSE IF dt >= 80000000 THEN "H"
    ELSE IF dt >= 10000000 THEN "B"
    ELSE IF dt >= 1000000 THEN "M"
    ELSE "L"

Outcome(error, data, raw, mu, delta, channels, loc, stage, sbuf, dbuf) ==
    [error |-> error, data |-> data, raw |-> raw, mu |-> mu, delta |-> delta,
     channels |-> channels, id_elem |-> loc.id_elem, tested |-> loc.tested,
     nextpoints |-> loc.nextpoints, located |-> loc.error = None,
     fetched |-> stage.fetched, decoded |-> stage.decoded, mij |-> stage.mij,
     field_z |-> stage.field_z, field_x |-> stage.field_x,
     sbuf |-> sbuf, dbuf |-> dbuf]

NoStage(sbuf, dbuf) == Stage(None, NoData, <<>>, {}, sbuf, dbuf, NoTensor, NoValue, NoValue)

get_seismograms(d, sbuf, dbuf, src, rec, components, remove_source_shift, reconvolve_stf, return_obspy_stream, dt) ==
    LET rot == rotate_frame_rd(src, rec)
        delta == IF dt.given THEN dt.value ELSE dt_db
        \* lines 521-541: the traces of a Stream, or the arrays and mu
        returned(loc, stage, post) ==
            IF post.error # None
            THEN Outcome(post.error, NoData, stage.data, 0, 0, <<>>, loc, stage,
                         stage.sbuf, stage.dbuf)
            ELSE IF return_obspy_stream
            THEN Outcome(None, post.data, stage.data, 0, delta,
                         [i \in DOMAIN components |->
                             get_band_code(delta) \o "X" \o components[i]],
                         loc, stage, stage.sbuf, stage.dbuf)
            ELSE IF ~loc.has_geometry
            THEN Outcome("UnboundLocalError: gll_point_ids", NoData, stage.data, 0, 0,
                         <<>>, loc, stage, stage.sbuf, stage.dbuf)
            ELSE Outcome(None, post.data, stage.data,
                         mesh_mu(sem_mesh(loc.id_elem)[npol \div 2][npol \div 2]), 0, <<>>,
                         loc, stage, stage.sbuf, stage.dbuf)
        \* lines 489-519: the loop over the requested components
        processed(loc, stage) ==
            IF stage.error # None
            THEN Outcome(stage.error, NoData, NoData, 0, 0, <<>>, loc, stage,
                         stage.sbuf, stage.dbuf)
            ELSE returned(loc, stage,
                          post_process(stage.data, components, 1, src,
                                       remove_source_shift, reconvolve_stf, dt))
        \* lines 270-487: the branch for the mode and the kind of source
        contracted(loc) ==
            IF loc.error # None
            THEN Outcome(loc.error, NoData, NoData, 0, 0, <<>>, loc, NoStage(sbuf, dbuf),
                         sbuf, dbuf)
            ELSE processed(loc,
                     IF d.reciprocal
                     THEN IF src.kind = "Source"
                          THEN reciprocal_source(d, sbuf, dbuf, src, rec, components, loc,
                                                 rot.phi)
                          ELSE IF src.kind = "ForceSource"
                          THEN reciprocal_force(d, sbuf, dbuf, src, rec, components, loc,
                                                rot.phi)
                          ELSE Stage("NotImplementedError", NoData, <<>>, {}, sbuf, dbuf,
                                     NoTensor, NoValue, NoValue)
                     ELSE forward_source(d, sbuf, dbuf, src, rec, components, loc, rot.phi,
                                         rot.pt))
    \* lines 199-259: the rotation to the source frame and the element search
    IN  contracted(locate(d.dump_type, rot.pt))

\* Which buffer a query of this source kind on this database uses.
field_of(d, src) == IF d.reciprocal /\ src.kind = "Source" THEN "strain" ELSE "displ"

\* One call of get_seismograms on the open handle.
Query(src, components, remove_source_shift, reconvolve_stf, return_obspy_stream, dt) ==
    /\ db.state = "open"
    /\ nq < MaxQueries
    /\ \E r \in {get_seismograms(db, strain_buffer, displ_buffer, src, TheReceiver,
                                  components, remove_source_shift, reconvolve_stf,
                                  return_obspy_stream, dt)} :
           /\ strain_buffer' = r.sbuf
           /\ displ_buffer' = r.dbuf
           /\ decodes' = [decodes EXCEPT ![field_of(db, src)] =
                             [m \in MeshNames |->
                                 IF m \in r.decoded
                                 THEN [@[m] EXCEPT ![r.id_elem] = @ + 1]
                                 ELSE @[m]]]
           /\ last' = [kind |-> "query", src |-> src, components |-> components,
                       remove_source_shift |-> remove_source_shift,
                       reconvolve_stf |-> reconvolve_stf,
                       return_obspy_stream |-> return_obspy_stream, dt |-> dt,
                       error |-> r.error, data |-> r.data, raw |-> r.raw, mu |-> r.mu,
                       delta |-> r.delta, channels |-> r.channels,
                       id_elem |-> r.id_elem, tested |-> r.tested,
                       nextpoints |-> r.nextpoints, located |-> r.located,
                       fetched |-> r.fetched, decoded |-> r.decoded, mij |-> r.mij,
                       field_z |-> r.field_z, field_x |-> r.field_x,
                       held_before |-> [m \in MeshNames |->
                           buffer_keys(IF field_of(db, src) = "strain"
                                       THEN strain_buffer[m] ELSE displ_buffer[m])]]
    /\ nq' = nq + 1
    /\ UNCHANGED <<fs, db, procs>>

(***************************************************************************)
(* get_seismograms_finite_source.                                          *)
(***************************************************************************)
RECURSIVE add_scaled(_, _, _, _, _)
\* for comp in components: data_summed[comp] (+)= data[comp] * mu / DEFAULT_MU
add_scaled(data_summed, data, mu, components, j) ==
    IF j > Len(components)
    THEN data_summed
    ELSE LET comp == components[j]
             term == [k \in DOMAIN data[comp] |-> (data[comp][k] * mu) \div DEFAULT_MU]
         IN  add_scaled(IF comp \in DOMAIN data_summed
                        THEN [data_summed EXCEPT ![comp] = [k \in DOMAIN @ |-> @[k] + term[k]]]
                        ELSE [c \in DOMAIN data_summed \cup {comp} |->
                                 IF c = comp THEN term ELSE data_summed[c]],
                        data, mu, components, j + 1)

RECURSIVE extract_sources(_, _, _, _, _, _)
\* for source in sources: one call of get_seismograms with reconvolve_stf=True
\* and return_obspy_stream=False, then the accumulation of its arrays.
extract_sources(d, sources, i, rec, components, acc) ==
    LET with_call(r) ==
            [error |-> r.error,
             data_summed |-> IF r.error = None
                             THEN add_scaled(acc.data_summed, r.data, r.mu, components, 1)
                             ELSE acc.data_summed,
             sbuf |-> r.sbuf, dbuf |-> r.dbuf,
             calls |-> Append(acc.calls,
                              [src |-> sources[i], error |-> r.error, data |-> r.data,
                               raw |-> r.raw, mu |-> r.mu, id_elem |-> r.id_elem,
                               fetched |-> r.fetched, decoded |-> r.decoded])]
        next(now) == IF now.error # None THEN now
                     ELSE extract_sources(d, sources, i + 1, rec, components, now)
    IN  IF i > Len(sources)
        THEN acc
        ELSE next(with_call(get_seismograms(d, acc.sbuf, acc.dbuf, sources[i], rec,
                                            components, TRUE, TRUE, FALSE, NoDt)))

RECURSIVE resample_summed(_, _, _, _)
\* if dt is not None: for comp in components: resample data_summed[comp]
resample_summed(data_summed, components, j, dt) ==
    IF j > Len(components)
    THEN [error |-> None, data |-> data_summed]
    ELSE IF components[j] \notin DOMAIN data_summed
    THEN [error |-> "KeyError", data |-> data_summed]
    ELSE resample_summed([data_summed EXCEPT ![components[j]] =
                              lanczos_resamp(@, dt_db, dt.value)],
                         components, j + 1, dt)

get_seismograms_finite_source(d, sbuf, dbuf, sources, rec, components, dt) ==
    LET delta == IF dt.given THEN dt.value ELSE dt_db
        failed(error, acc) ==
            [error |-> error, data |-> NoData, summed |-> NoData, delta |-> 0,
             channels |-> <<>>, calls |-> acc.calls, sbuf |-> acc.sbuf, dbuf |-> acc.dbuf]
        \* the traces of the Stream
        traced(acc, res) ==
            IF res.error # None
            THEN failed(res.error, acc)
            ELSE IF \E i \in DOMAIN components : components[i] \notin DOMAIN res.data
            THEN failed("KeyError", acc)
            ELSE [error |-> None, data |-> res.data, summed |-> acc.data_summed,
                  delta |-> delta,
                  channels |-> [i \in DOMAIN components |->
                                   get_band_code(delta) \o "X" \o components[i]],
                  calls |-> acc.calls, sbuf |-> acc.sbuf, dbuf |-> acc.dbuf]
        \* the resampling of the sums
        summed(acc) ==
            IF acc.error # None
            THEN failed(acc.error, acc)
            ELSE traced(acc, IF dt.given
                             THEN resample_summed(acc.data_summed, components, 1, dt)
                             ELSE [error |-> None, data |-> acc.data_summed])
    IN  IF ~d.reciprocal
        THEN failed("NotImplementedError", [calls |-> <<>>, sbuf |-> sbuf, dbuf |-> dbuf])
        ELSE summed(extract_sources(d, sources, 1, rec, components,
                                    [error |-> None, data_summed |-> NoData,
                                     sbuf |-> sbuf, dbuf |-> dbuf, calls |-> <<>>]))

\* One call of get_seismograms_finite_source on the open handle.
QueryFiniteSource(sources, components, dt) ==
    /\ db.state = "open"
    /\ nq < MaxQueries
    /\ \E r \in {get_seismograms_finite_source(db, strain_buffer, displ_buffer, sources,
                                                TheReceiver, components, dt)} :
           /\ strain_buffer' = r.sbuf
           /\ displ_buffer' = r.dbuf
           /\ decodes' = [field \in {"strain", "displ"} |->
                             [m \in MeshNames |-> [e \in Elems |->
                                 decodes[field][m][e]
                                 + Cardinality({k \in DOMAIN r.calls :
                                       /\ field_of(db, r.calls[k].src) = field
                                       /\ m \in r.calls[k].decoded
                                       /\ r.calls[k].id_elem = e})]]]
           /\ last' = [kind |-> "finite", sources |-> sources, components |-> components,
                       dt |-> dt, error |-> r.error, data |-> r.data,
                       summed |-> r.summed, delta |-> r.delta, channels |-> r.channels,
                       calls |-> r.calls]
    /\ nq' = nq + 1
    /\ UNCHANGED <<fs, db, procs>>

(***************************************************************************)
(* Specifications.                                                         *)
(***************************************************************************)
Database(present, dump_type) ==
    [dirs |-> [d \in AllDirs |-> IF d \in present THEN "file" ELSE "absent"],
     dump_type |-> dump_type]

\* Complete reciprocal databases of every dump type, reciprocal databases with
\* one of the two meshes, and complete forward databases.
Databases ==
    {Database({"PX", "PZ"}, dump_type) : dump_type \in DumpTypes}
        \cup {Database({"PX"}, "displ_only"), Database({"PZ"}, "strain_only"),
              Database(FwdDirs, "displ_only"), Database(FwdDirs, "fullfields")}

ComponentChoices ==
    {<<>>, <<"Z">>, <<"N">>, <<"R", "T">>, <<"Z", "Z">>, <<"Z", "N", "E">>}

InitWith(databases) ==
    /\ fs \in databases
    /\ db = NoDb
    /\ strain_buffer = EmptyBuffers
    /\ displ_buffer = EmptyBuffers
    /\ decodes = NoDecodes
    /\ nq = 0
    /\ last = NoLast
    /\ procs = <<>>

Init == InitWith(Databases)

OpenAny == \E reciprocal \in BOOLEAN, size \in 0 .. MaxBufEntries : Open(reciprocal, size)

\* Queries with the default arguments of get_seismograms.
QueryDefault ==
    \E src \in {SrcA, SrcB, SrcUnit, SrcFar, SrcOutside, SrcForce, SrcOther},
       components \in ComponentChoices :
        Query(src, components, TRUE, FALSE, TRUE, NoDt)

Next == OpenAny \/ QueryDefault

Spec == Init /\ [][Next]_vars

(***************************************************************************)
(* Locating the element: C2, C3.                                           *)
(***************************************************************************)
IsQuery == last.kind = "query"
UsesElement == IsQuery /\ last.fetched # <<>>

\* C2 (as stated): for every query and every dump type, the element id used for
\* fetching fields is an element that passed the containment test, or the query
\* fails with a geometry error.
C2_UsedElementPassedContainment ==
    IsQuery =>
        \/ last.error = "ValueError: Element not found"
        \/ UsesElement => (last.id_elem \in Containing(last.src.pt)
                           /\ last.id_elem \in Range(last.tested))

\* C2 (amended): in displ_only mode the element used passed the containment
\* test, or the query fails with 'Element not found' before any fetch; in
\* strain_only and fullfields mode the nearest candidate of the spatial index is
\* used and no containment test is made.
C2_ContainmentOnlyInDisplOnly ==
    IsQuery =>
        IF db.dump_type = "displ_only"
        THEN /\ last.located =>
                   /\ last.id_elem \in Containing(last.src.pt)
                   /\ last.id_elem \in Range(last.tested)
             /\ ~last.located =>
                   /\ last.error = "ValueError: Element not found"
                   /\ last.fetched = <<>>
        ELSE /\ last.located
             /\ last.tested = <<>>
             /\ last.id_elem = Nearest(last.src.pt)[1]

\* A displ_only query that tested several candidates before fetching from one.
C2_Witness ==
    /\ UsesElement
    /\ db.dump_type = "displ_only"
    /\ Len(last.tested) > 1
    /\ last.error = None

\* C3: in displ_only mode the locator asks for k = 6 candidates and tests them
\* nearest first; the located element is the first candidate whose containment
\* test succeeds, later candidates are not tested, and if none of the six
\* succeeds the query raises 'Element not found'; in strain_only and fullfields
\* mode k = 1.
C3_FirstContainingOfSix ==
    IsQuery =>
        LET pt == last.src.pt
            np == last.nextpoints
            hits == {i \in 1 .. Len(np) : np[i] \in Containing(pt)}
        IN  IF db.dump_type = "displ_only"
            THEN /\ Len(np) = 6
                 /\ \A i \in 1 .. 6 : np[i] = Nearest(pt)[i]
                 /\ hits # {} =>
                        /\ last.located
                        /\ \A i \in hits :
                               (\A h \in hits : i <= h) =>
                                   /\ last.id_elem = np[i]
                                   /\ last.tested = SubSeq(np, 1, i)
                 /\ hits = {} =>
                        /\ ~last.located
                        /\ last.error = "ValueError: Element not found"
                        /\ last.tested = np
            ELSE /\ Len(np) = 1
                 /\ np[1] = Nearest(pt)[1]

\* A displ_only query whose point lies in two of the six candidates and was
\* located in the nearer one, with the farther one left untested.
C3_Witness ==
    /\ IsQuery
    /\ db.dump_type = "displ_only"
    /\ last.located
    /\ Cardinality({i \in 1 .. Len(last.nextpoints) :
                       last.nextpoints[i] \in Containing(last.src.pt)}) = 2
    /\ Len(last.tested) < 5

\* A displ_only query whose point lies in none of the six candidates, though it
\* lies in an element farther away.
C3_WitnessNotFound ==
    /\ IsQuery
    /\ db.dump_type = "displ_only"
    /\ ~last.located
    /\ Containing(last.src.pt) # {}

(***************************************************************************)
(* The element buffers under sequential queries: C4, C6.                   *)
(***************************************************************************)
\* The location the last query worked at, and what a fetch from an empty
\* buffer returns there.
last_loc == locate(db.dump_type, last.src.pt)
fresh_fetch(mesh) ==
    IF last.src.kind = "Source"
    THEN fetch_strain(db, mesh, <<>>, last_loc).value
    ELSE fetch_displacement(db, mesh, <<>>, last_loc).value

ReturnedArraysIdentical ==
    (IsQuery /\ db.reciprocal) =>
        /\ last.field_z # NoValue => last.field_z = fresh_fetch("pz")
        /\ last.field_x # NoValue => last.field_x = fresh_fetch("px")

\* C4 (as stated): over any sequence of queries on one handle, the fetches of
\* one field for one (mesh, element id) run the decode exactly once, on the
\* first fetch, and every fetch returns an identical array.
C4_DecodeOncePerElement ==
    /\ \A field \in {"strain", "displ"}, m \in MeshNames, e \in Elems :
           decodes[field][m][e] <= 1
    /\ ReturnedArraysIdentical

\* C4 (amended): a fetch runs the decode exactly when the element id is not held
\* in the mesh's buffer at that moment, so it runs once for as long as the entry
\* stays held, and again after an eviction or on every fetch when the buffer
\* budget is zero; every fetch returns an identical array.
C4_DecodeExactlyOnMiss ==
    /\ IsQuery =>
           \A i \in 1 .. Len(last.fetched) :
               LET m == last.fetched[i]
               IN  m \in db.meshes =>
                       (m \in last.decoded <=> last.id_elem \notin last.held_before[m])
    /\ \A m \in MeshNames :
           /\ \A e \in buffer_keys(strain_buffer[m]) : decodes["strain"][m][e] >= 1
           /\ \A e \in buffer_keys(displ_buffer[m]) : decodes["displ"][m][e] >= 1
    /\ ReturnedArraysIdentical

\* A query served from the buffer: the element was held and no decode ran.
C4_Witness ==
    /\ IsQuery
    /\ last.error = None
    /\ \E i \in 1 .. Len(last.fetched) :
           /\ last.id_elem \in last.held_before[last.fetched[i]]
           /\ last.fetched[i] \notin last.decoded

\* The array a decode stores for an element of a mesh.
decode_of(field, mesh, id_elem) ==
    IF field = "displ" THEN decode_displacement(mesh, id_elem)
    ELSE IF db.dump_type = "displ_only" THEN decode_strain(mesh, id_elem)
    ELSE load_strain(mesh, id_elem)

\* C6: buffer entries are written once and never modified: after any sequence
\* of queries the array stored for an element id equals the array its decode
\* produced, and a query served from the buffer returns the same series as the
\* same query served by a fresh decode.
C6_EntriesImmutable ==
    /\ \A m \in MeshNames :
           /\ \A i \in DOMAIN strain_buffer[m] :
                  strain_buffer[m][i].value = decode_of("strain", m, strain_buffer[m][i].key)
           /\ \A i \in DOMAIN displ_buffer[m] :
                  displ_buffer[m][i].value = decode_of("displ", m, displ_buffer[m][i].key)
    /\ (IsQuery /\ last.error = None) =>
           last.data = get_seismograms(db, EmptyBuffers, EmptyBuffers, last.src, TheReceiver,
                                       last.components, last.remove_source_shift,
                                       last.reconvolve_stf, last.return_obspy_stream,
                                       last.dt).data

\* A query served from the buffered strain of the dipole mesh, whose shear
\* components are sign-flipped after interpolation, with the entry still held.
C6_Witness ==
    /\ IsQuery
    /\ last.error = None
    /\ db.dump_type = "displ_only"
    /\ "px" \in Range(last.fetched)
    /\ "px" \notin last.decoded
    /\ \E t \in Times : last.field_x[t][3] # 0 \/ last.field_x[t][5] # 0
    /\ last.id_elem \in buffer_keys(strain_buffer["px"])

(***************************************************************************)
(* The reciprocal contraction: C7, C8.                                     *)
(***************************************************************************)
\* C7: for a moment-tensor source in reciprocal mode, with m the rotated,
\* amplitude-normalised Voigt tensor, ez/ex the interpolated strain of the
\* PZ/PX mesh and phi the azimuth, for every time sample
\*   Z = m0 ez0 + m1 ez1 + m2 ez2 + 2 m4 ez4,    R = -(m0 ex0 + m1 ex1 + m2 ex2 + 2 m4 ex4),
\*   T = 2 m3 ex3 + 2 m5 ex5,
\*   E = (m0 ex0 + m1 ex1 + m2 ex2 + 2 m4 ex4) sin(phi) + (2 m3 ex3 + 2 m5 ex5) cos(phi),
\*   N = -[(m0 ex0 + m1 ex1 + m2 ex2 + 2 m4 ex4) cos(phi) - (2 m3 ex3 + 2 m5 ex5) sin(phi)].
C7_ReciprocityContraction ==
    (IsQuery /\ db.reciprocal /\ last.src.kind = "Source" /\ last.error = None) =>
        LET m == last.mij
            ez == last.field_z
            ex == last.field_x
            phi == last.src.phi
            A(t) == m[0] * ex[t][0] + m[1] * ex[t][1] + m[2] * ex[t][2] + 2 * m[4] * ex[t][4]
            B(t) == 2 * m[3] * ex[t][3] + 2 * m[5] * ex[t][5]
        IN  \A comp \in DOMAIN last.raw, t \in Times :
                last.raw[comp][t] =
                    CASE comp = "Z" -> m[0] * ez[t][0] + m[1] * ez[t][1] + m[2] * ez[t][2]
                                       + 2 * m[4] * ez[t][4]
                      [] comp = "R" -> -(A(t))
                      [] comp = "T" -> B(t)
                      [] comp = "E" -> A(t) * Sin(phi) + B(t) * Cos(phi)
                      [] comp = "N" -> -(A(t) * Cos(phi) - B(t) * Sin(phi))

\* A Z, N, E query of a moment tensor whose north series is not zero and whose
\* azimuth makes the sine term count.
C7_Witness ==
    /\ IsQuery /\ db.reciprocal /\ last.src.kind = "Source" /\ last.error = None
    /\ last.components = <<"Z", "N", "E">>
    /\ Sin(last.src.phi) # 0
    /\ \E t \in Times : last.raw["N"][t] # 0 /\ last.raw["E"][t] # 0 /\ last.raw["Z"][t] # 0

\* C8: in reciprocal mode the PZ mesh and its buffers are accessed if and only
\* if "Z" is requested, and the PX mesh and its buffers if and only if one of
\* N, E, R, T is requested; a query that does not need a mesh leaves that mesh's
\* buffers unchanged, for moment-tensor and force sources alike.
C8_ReadsOnlyNeededMeshes ==
    [][(nq' = nq + 1 /\ db.reciprocal /\ last'.src.kind \in {"Source", "ForceSource"}) =>
          LET c == last'.components
              read == Range(last'.fetched)
          IN  /\ "pz" \in read => needs_z(c)
              /\ "px" \in read => needs_x(c)
              /\ last'.error = None =>
                     /\ needs_z(c) => "pz" \in read
                     /\ needs_x(c) => "px" \in read
              /\ ~needs_z(c) =>
                     /\ strain_buffer'["pz"] = strain_buffer["pz"]
                     /\ displ_buffer'["pz"] = displ_buffer["pz"]
              /\ ~needs_x(c) =>
                     /\ strain_buffer'["px"] = strain_buffer["px"]
                     /\ displ_buffer'["px"] = displ_buffer["px"]]_vars

\* A horizontal-only query on a handle whose PZ buffer holds an element from an
\* earlier query: only PX was read.
C8_Witness ==
    /\ IsQuery /\ db.reciprocal /\ last.error = None
    /\ ~needs_z(last.components) /\ needs_x(last.components)
    /\ last.fetched = <<"px">>
    /\ strain_buffer["pz"] # <<>>

(***************************************************************************)
(* All requested components or none: C11.                                  *)
(***************************************************************************)
IsSeries(x) == DOMAIN x = 1 .. Len(x) /\ \A j \in DOMAIN x : x[j] \in Int

\* Whether a requested component needs a mesh the opened database lacks.
NeedsMissingMesh ==
    /\ db.reciprocal
    /\ \/ needs_z(last.components) /\ "pz" \notin db.meshes
       \/ needs_x(last.components) /\ "px" \notin db.meshes

\* C11: a call of get_seismograms either returns one series for every label of
\* the components argument or fails and returns nothing; it never returns an
\* output that lacks a requested component, and it fails when a requested
\* component needs a mesh the database does not have, also when the field of
\* another component was read before the failure.
C11_AllComponentsOrNothing ==
    IsQuery =>
        /\ IF last.error = None
           THEN /\ DOMAIN last.data = Range(last.components)
                /\ \A comp \in DOMAIN last.data : IsSeries(last.data[comp])
                /\ Len(last.channels) = Len(last.components)
           ELSE last.data = NoData /\ last.channels = <<>>
        /\ NeedsMissingMesh => last.error # None

\* Z and a horizontal component were requested of a database that has PZ but
\* not PX: the vertical strain was read, the horizontal fetch failed, and the
\* call returned nothing.
C11_Witness ==
    /\ IsQuery
    /\ "px" \notin db.meshes /\ "pz" \in db.meshes
    /\ needs_z(last.components) /\ needs_x(last.components)
    /\ last.fetched = <<"pz", "px">>
    /\ last.error # None
    /\ last.data = NoData

(***************************************************************************)
(* Post-processing: C9, C10.                                               *)
(***************************************************************************)
\* Queries that vary the post-processing arguments, on complete reciprocal
\* databases, for sources whose source time function can be reconvolved.
QueryPost ==
    \E src \in {SrcA, SrcNearDt, SrcShifted},
       components \in {<<>>, <<"Z", "Z">>, <<"R", "T">>},
       remove_source_shift \in BOOLEAN, reconvolve_stf \in BOOLEAN,
       dt \in {NoDt, GivenDt(2 * dt_db)} :
        Query(src, components, remove_source_shift, reconvolve_stf, TRUE, dt)

\* Queries that ask to reconvolve a source time function that is missing or
\* sampled at another interval.
QueryBadStf ==
    \E src \in {SrcNoStf, SrcNoDt, SrcBadDt},
       components \in {<<>>, <<"Z">>, <<"R", "T">>},
       remove_source_shift \in BOOLEAN, reconvolve_stf \in BOOLEAN :
        Query(src, components, remove_source_shift, reconvolve_stf, TRUE, NoDt)

InitPost ==
    InitWith({Database({"PX", "PZ"}, dump_type) : dump_type \in {"displ_only", "strain_only"}})

NextPost == OpenAny \/ QueryPost \/ QueryBadStf

SpecPost == InitPost /\ [][NextPost]_vars

\* What the claimed order of steps makes of one raw series.
expected_series(raw) ==
    LET first == IF last.remove_source_shift /\ ~last.reconvolve_stf
                 THEN [j \in 1 .. (ndumps - source_shift_samp) |-> raw[j + source_shift_samp]]
                 ELSE IF last.reconvolve_stf
                 THEN reconvolve(raw, last.src)
                 ELSE raw
    IN  IF last.dt.given THEN lanczos_resamp(first, dt_db, last.dt.value) ELSE first

\* C9: each requested component is post-processed in the order trim or
\* reconvolve, then resample: with remove_source_shift and without
\* reconvolve_stf exactly the first source_shift_samp samples are dropped
\* (output sample j is raw sample j + source_shift_samp, ndumps -
\* source_shift_samp samples remain); with reconvolve_stf nothing is dropped and
\* the series has ndumps samples; with neither the raw series is unchanged;
\* resampling runs only when dt is given, after the previous step.
C9_TrimOrReconvolveThenResample ==
    (IsQuery /\ last.error = None) =>
        \A comp \in Range(last.components) :
            /\ last.data[comp] = expected_series(last.raw[comp])
            /\ ~last.dt.given =>
                   Len(last.data[comp]) =
                       IF last.remove_source_shift /\ ~last.reconvolve_stf
                       THEN ndumps - source_shift_samp ELSE ndumps

\* The same statement for component tuples that list no label twice.
C9_HoldsForDistinctLabels ==
    (IsQuery /\ \A i, j \in DOMAIN last.components : last.components[i] = last.components[j] => i = j)
        => C9_TrimOrReconvolveThenResample

has_stf(src) == src.has_sliprate /\ src.has_dt

\* C10 (as stated): when reconvolve_stf is true, get_seismograms fails and
\* returns no trace if the source carries no source time function samples or no
\* sampling interval, and fails if |source.dt - database dt| / database dt >
\* 1e-7; when the source has both and its dt matches within 1e-7 neither error
\* is raised.
C10_ReconvolveNeedsStf ==
    (IsQuery /\ last.reconvolve_stf) =>
        /\ ~has_stf(last.src) => (last.error # None /\ last.data = NoData)
        /\ (has_stf(last.src) /\ dt_incompatible(last.src)) => last.error # None
        /\ (has_stf(last.src) /\ ~dt_incompatible(last.src)) =>
               last.error \notin {"RuntimeError: source has no source time function",
                                  "ValueError: dt of the source not compatible"}

\* C10 (amended): the same, for queries that request at least one component; a
\* query with an empty components argument returns an empty result without
\* looking at the source time function.
C10_ReconvolveNeedsStfPerComponent ==
    (IsQuery /\ last.reconvolve_stf) =>
        IF Len(last.components) >= 1
        THEN /\ ~has_stf(last.src) =>
                    /\ last.error = "RuntimeError: source has no source time function"
                    /\ last.data = NoData
             /\ (has_stf(last.src) /\ dt_incompatible(last.src)) =>
                    /\ last.error = "ValueError: dt of the source not compatible"
                    /\ last.data = NoData
             /\ (has_stf(last.src) /\ ~dt_incompatible(last.src)) => last.error = None
        ELSE last.error = None /\ last.data = NoData

\* A reconvolving query for one component of a source with a sampling interval
\* but no source time function samples: it failed.
C10_Witness ==
    /\ IsQuery /\ last.reconvolve_stf
    /\ Len(last.components) >= 1
    /\ last.src.has_dt /\ ~last.src.has_sliprate
    /\ last.error = "RuntimeError: source has no source time function"

(***************************************************************************)
(* Finite sources, and which check of a query fails first: C12, C14, C17,  *)
(* C19.                                                                    *)
(***************************************************************************)
IsFinite == last.kind = "finite"

FiniteSources ==
    {<<>>, <<SrcA>>, <<SrcA, SrcB>>, <<SrcB, SrcA>>, <<SrcB, SrcShifted>>, <<SrcA, SrcNoStf>>,
     <<SrcA, SrcForce>>}

\* Finite sources of up to two point sources, with and without resampling.
QueryFinite ==
    \E sources \in FiniteSources,
       components \in {<<"Z">>, <<"Z", "Z">>, <<"R", "T">>},
       dt \in {NoDt, GivenDt(2 * dt_db)} :
        QueryFiniteSource(sources, components, dt)

\* Point-source queries in which more than one check of get_seismograms could
\* fail.
QueryUnsupported ==
    \E src \in {SrcA, SrcForce, SrcOther, SrcForceOutside, SrcOutsideNoStf, SrcNoStf},
       components \in {<<"Z">>, <<"R", "T">>},
       reconvolve_stf \in BOOLEAN :
        Query(src, components, TRUE, reconvolve_stf, TRUE, NoDt)

InitFinite ==
    InitWith({Database({"PX", "PZ"}, dump_type) : dump_type \in DumpTypes}
                 \cup {Database(FwdDirs, "displ_only"), Database(FwdDirs, "fullfields")})

\* Moment-tensor queries of a forward database, with R and T requested alone
\* and together with N, E or Z.
QueryForward ==
    \E src \in {SrcA, SrcB, SrcUnit},
       components \in {<<"R", "T">>, <<"T", "Z">>, <<"R", "N", "E">>} :
        /\ db.state = "open" /\ ~db.reciprocal
        /\ Query(src, components, TRUE, FALSE, TRUE, NoDt)

NextFinite == OpenAny \/ QueryFinite \/ QueryUnsupported \/ QueryForward

SpecFinite == InitFinite /\ [][NextFinite]_vars

\* The rigidity at the element a source is located in.
mu_at(src) ==
    mesh_mu(sem_mesh(locate(db.dump_type, src.pt).id_elem)[npol \div 2][npol \div 2])

\* What the claim makes of source number i: its raw series reconvolved once and
\* scaled by mu_i / DEFAULT_MU.
contribution(comp, i) ==
    LET reconvolved == reconvolve(last.calls[i].raw[comp], last.calls[i].src)
    IN  [k \in DOMAIN reconvolved |->
            (reconvolved[k] * mu_at(last.calls[i].src)) \div DEFAULT_MU]

RECURSIVE sum_of_sources(_, _)
sum_of_sources(comp, n) ==
    IF n = 0 THEN [k \in 1 .. ndumps |-> 0]
    ELSE [k \in 1 .. ndumps |-> sum_of_sources(comp, n - 1)[k] + contribution(comp, n)[k]]

DistinctLabels(components) ==
    \A i, j \in DOMAIN components : components[i] = components[j] => i = j

\* C12: get_seismograms_finite_source returns, for each requested component,
\* resample(sum over all sources i of reconvolved_i * mu_i / 32e9): every source
\* is reconvolved and not resampled on its own, scaled by the rigidity at its
\* own element over the reference rigidity, and the sum (which does not depend
\* on the order of the sources) is resampled once when dt is given.
C12_FiniteSourceSum ==
    (IsFinite /\ last.error = None) =>
        /\ Len(last.calls) = Len(last.sources)
        /\ \A comp \in Range(last.components) :
               last.data[comp] =
                   IF last.dt.given
                   THEN lanczos_resamp(sum_of_sources(comp, Len(last.calls)), dt_db,
                                       last.dt.value)
                   ELSE sum_of_sources(comp, Len(last.calls))

\* The same statement for component tuples that list no label twice.
C12_HoldsForDistinctLabels ==
    (IsFinite /\ DistinctLabels(last.components)) => C12_FiniteSourceSum

\* Two sources located in different elements were summed and resampled.
C12_TwoSourcesSummed ==
    /\ IsFinite /\ last.error = None
    /\ Len(last.calls) = 2
    /\ last.calls[1].mu # last.calls[2].mu
    /\ DistinctLabels(last.components)
    /\ last.dt.given

\* What forward mode does not serve: a source that is no moment tensor, or a
\* database that is not displ_only.
ForwardUnsupportedQuery ==
    /\ IsQuery /\ ~db.reciprocal
    /\ last.src.kind # "Source" \/ db.dump_type # "displ_only"

\* C14 (as stated): in forward mode a query with a source that is no moment
\* tensor, or on a database that is not displ_only, fails with the
\* unsupported-operation error without reading any elemental mesh, and a finite
\* source on a forward database fails the same way before any source is
\* extracted.
C14_ForwardUnsupported ==
    /\ ForwardUnsupportedQuery =>
           last.error = "NotImplementedError" /\ last.fetched = <<>>
    /\ (IsFinite /\ ~db.reciprocal) =>
           last.error = "NotImplementedError" /\ last.calls = <<>>

\* C14 (amended): such a query fails without reading any elemental mesh, with
\* the unsupported-operation error when an element was located and with
\* 'Element not found' when the point lies in none of the candidate elements
\* of a displ_only database; a finite source on a forward database fails with
\* the unsupported-operation error before any source is extracted.
C14_ForwardUnsupportedAfterLocating ==
    /\ ForwardUnsupportedQuery =>
           /\ last.fetched = <<>> /\ last.decoded = {} /\ last.data = NoData
           /\ last.error = IF last.located THEN "NotImplementedError"
                           ELSE "ValueError: Element not found"
           /\ ~last.located =>
                  /\ db.dump_type = "displ_only"
                  /\ \A i \in DOMAIN last.nextpoints :
                         last.nextpoints[i] \notin Containing(last.src.pt)
    /\ (IsFinite /\ ~db.reciprocal) =>
           last.error = "NotImplementedError" /\ last.calls = <<>> /\ last.data = NoData

\* A moment-tensor source was asked of a forward database that is not
\* displ_only: the element was located and the query was refused.
C14_Witness ==
    /\ ForwardUnsupportedQuery
    /\ last.src.kind = "Source" /\ db.dump_type = "fullfields"
    /\ last.located
    /\ last.error = "NotImplementedError"

\* The displacement of one elemental mesh interpolated at the located point.
elemental_displ(mesh) ==
    interpolate_displacement(decode_displacement(mesh, last.id_elem),
                             last_loc.xi, last_loc.eta)

\* Component c (0: s, 1: phi, 2: z) of the combined field at sample t, as the
\* claim writes it.
combined(c, t) ==
    LET m == [i \in 0 .. 5 |-> last.src.tensor[i] \div amplitude]
        phi == last.src.phi
        d1 == elemental_displ("m1")
        d2 == elemental_displ("m2")
        d3 == elemental_displ("m3")
        d4 == elemental_displ("m4")
    IN  IF c = 1
        THEN d3[t][1] * (-1 * m[3] * Sin(phi) + m[4] * Cos(phi))
             + d4[t][1] * (-1 * (m[1] - m[2]) * Sin(2 * phi) + 2 * m[5] * Cos(2 * phi))
        ELSE d1[t][c] * m[0] + d2[t][c] * (m[1] + m[2])
             + d3[t][c] * (m[3] * Cos(phi) + m[4] * Sin(phi))
             + d4[t][c] * ((m[1] - m[2]) * Cos(2 * phi) + 2 * m[5] * Sin(2 * phi))

\* C15: in forward mode, with m the source tensor over the amplitude and d1..d4
\* the displacement of the four meshes at the one located element, the field is
\* s = d1_s*m0 + d2_s*(m1+m2) + d3_s*(m3 cos phi + m4 sin phi)
\* + d4_s*((m1-m2) cos 2phi + 2 m5 sin 2phi), z likewise, and
\* p = d3_p*(-m3 sin phi + m4 cos phi) + d4_p*(-(m1-m2) sin 2phi + 2 m5 cos 2phi);
\* T is -p and R is s cos(colat) - z sin(colat), from the field before its
\* rotation to N, E, Z, whatever else is requested.
C15_ForwardCombination ==
    (IsQuery /\ ~db.reciprocal /\ last.error = None) =>
        /\ last.fetched = <<"m1", "m2", "m3", "m4">>
        /\ \A i \in 0 .. 5 : last.mij[i] * amplitude = last.src.tensor[i]
        /\ "T" \in Range(last.components) =>
               \A t \in Times : last.raw["T"][t] = -1 * combined(1, t)
        /\ "R" \in Range(last.components) =>
               \A t \in Times :
                   last.raw["R"][t] =
                       combined(0, t) * Cos(rotmesh_colat(last.src.pt))
                       - combined(2, t) * Sin(rotmesh_colat(last.src.pt))

\* R was requested together with N and E of a forward database, and came out
\* with a sample that is not zero.
C15_Witness ==
    /\ IsQuery /\ ~db.reciprocal /\ last.error = None
    /\ last.components = <<"R", "N", "E">>
    /\ \E t \in Times : last.raw["R"][t] # 0 /\ combined(0, t) # combined(2, t)

\* get_seismograms with reconvolve_stf=True, as a caller would run it for one
\* source of the last finite-source query, succeeds.
succeeds_alone(src) ==
    get_seismograms(db, strain_buffer, displ_buffer, src, TheReceiver, last.components,
                    TRUE, TRUE, TRUE, NoDt).error = None

EachSourceSucceedsAlone ==
    /\ IsFinite /\ db.reciprocal
    /\ Len(last.sources) > 0
    /\ \A i \in DOMAIN last.sources : succeeds_alone(last.sources[i])

\* C17: on a reciprocal database of every dump type,
\* get_seismograms_finite_source succeeds whenever get_seismograms with
\* reconvolve_stf=True succeeds for each of its sources: the rigidity lookup
\* made when no stream is asked for is defined for every located element.
C17_FiniteSourceSucceeds == EachSourceSucceedsAlone => last.error = None

\* On a displ_only database the containment loop binds the nodal ids, and the
\* finite-source query succeeds with its sources.
C17_HoldsForDisplOnly ==
    (EachSourceSucceedsAlone /\ db.dump_type = "displ_only") => last.error = None

\* On a strain_only database every source succeeds alone and the
\* finite-source query fails at the rigidity lookup of its first source.
C17_RigidityLookupUndefined ==
    ~(/\ EachSourceSucceedsAlone /\ db.dump_type = "strain_only"
      /\ last.sources = <<SrcA, SrcB>>
      /\ last.error = "UnboundLocalError: gll_point_ids"
      /\ Len(last.calls) = 1)

\* The point of a source lies in none of the elements the containment loop
\* of the open database tests.
InNoCandidate(src) ==
    /\ db.dump_type = "displ_only"
    /\ \A idx \in Range(kdtree_query(src.pt, k_map(db.dump_type))) :
           ~inside_element(src.pt, idx).isin

ElementNotFound == "ValueError: Element not found"

\* C19: a query whose point lies in no candidate element fails before any
\* field is fetched: when get_seismograms raises 'Element not found' no mesh
\* was read, no decode was run and the strain and displacement caches of every
\* mesh are as before the call; and the geometry error is raised instead of any
\* unsupported-source or reconvolution error of the same call.
C19_ElementNotFoundFirst ==
    [][(nq' = nq + 1 /\ last'.kind = "query") =>
           /\ last'.error = ElementNotFound =>
                  /\ strain_buffer' = strain_buffer
                  /\ displ_buffer' = displ_buffer
                  /\ decodes' = decodes
                  /\ last'.fetched = <<>> /\ last'.decoded = {}
           /\ InNoCandidate(last'.src) => last'.error = ElementNotFound]_vars

\* A moment-tensor source without a source time function, in no candidate
\* element, was asked with reconvolution on a handle whose strain cache already
\* held a decoded element: the call failed with the geometry error.
C19_Witness ==
    /\ IsQuery /\ last.error = ElementNotFound
    /\ last.src = SrcOutsideNoStf /\ last.reconvolve_stf
    /\ InNoCandidate(last.src)
    /\ \E m \in MeshNames : last.held_before[m] # {}

\* A force source in no candidate element was asked of a forward database:
\* the call failed with the geometry error, not as unsupported.
C19_ForceOutsideForward ==
    ~(/\ IsQuery /\ last.error = ElementNotFound
      /\ last.src = SrcForceOutside /\ ~db.reciprocal)

(***************************************************************************)
(* Channel names: C13.                                                     *)
(***************************************************************************)
\* Sampling intervals around every threshold of the band code, in ticks.
BandInputs ==
    {1, 999999, 1000000, 1000001, 9999999, 10000000, 10000001, 79999999, 80000000,
     80000001, 249999999, 250000000, 250000001, 999999999, 1000000000, 1000000001,
     2000000000}

\* _get_band_code applied to a sampling interval.
BandCode ==
    \E dt \in BandInputs :
        /\ last' = [kind |-> "band", dt |-> dt, band_code |-> get_band_code(dt)]
        /\ UNCHANGED <<fs, db, strain_buffer, displ_buffer, decodes, nq, procs>>

\* Queries that return a Stream at the database interval and at two others.
QueryStream ==
    \E src \in {SrcA, SrcB},
       components \in {<<"Z">>, <<"Z", "Z">>, <<"R", "T">>, <<"Z", "N", "E">>},
       dt \in {NoDt, GivenDt(2 * dt_db), GivenDt(8 * dt_db)} :
        \/ Query(src, components, TRUE, FALSE, TRUE, dt)
        \/ QueryFiniteSource(<<src>>, components, dt)

NextBand == OpenAny \/ BandCode \/ QueryStream

SpecBand == InitPost /\ [][NextBand]_vars

\* sr = 1 / dt <= 1 / seconds, for dt in ticks of 1e-6 s.
rate_at_most(dt, seconds) == 1000000 * seconds <= dt

band_of_rate(dt) ==
    CASE rate_at_most(dt, 1000) -> "F"
      [] ~rate_at_most(dt, 1000) /\ rate_at_most(dt, 250) -> "C"
      [] ~rate_at_most(dt, 250) /\ rate_at_most(dt, 80) -> "H"
      [] ~rate_at_most(dt, 80) /\ rate_at_most(dt, 10) -> "B"
      [] ~rate_at_most(dt, 10) /\ rate_at_most(dt, 1) -> "M"
      [] ~rate_at_most(dt, 1) -> "L"

\* C13: the band code is a total function of the sampling rate sr = 1 / dt with
\* the thresholds sr <= 0.001 -> F, <= 0.004 -> C, <= 0.0125 -> H, <= 0.1 -> B,
\* <= 1 -> M, otherwise L, a rate on a threshold taking the lower band; every
\* trace of a returned Stream is named band code + "X" + component letter and
\* its delta is the requested dt, or the database dt when none is requested.
C13_BandCodeAndChannel ==
    /\ last.kind = "band" => last.band_code = band_of_rate(last.dt)
    /\ ((IsQuery \/ IsFinite) /\ last.error = None) =>
           /\ last.delta = IF last.dt.given THEN last.dt.value ELSE dt_db
           /\ Len(last.channels) = Len(last.components)
           /\ \A i \in DOMAIN last.components :
                  last.channels[i] = band_of_rate(last.delta) \o "X" \o last.components[i]

\* A Stream resampled to 250 s, a sampling rate on the threshold 0.004: its
\* traces carry the band code C.
C13_Witness ==
    /\ IsQuery /\ last.error = None
    /\ last.dt.given /\ last.delta = 250000000
    /\ last.channels = <<"CXR", "CXT">>

(***************************************************************************)
(* A label listed more than once: C18.                                      *)
(***************************************************************************)
\* The series the last call returns for a label when the label is the only
\* one listed.
listed_once(comp) ==
    IF IsFinite
    THEN get_seismograms_finite_source(db, strain_buffer, displ_buffer, last.sources,
                                       TheReceiver, <<comp>>, last.dt).data[comp]
    ELSE get_seismograms(db, strain_buffer, displ_buffer, last.src, TheReceiver, <<comp>>,
                         last.remove_source_shift, last.reconvolve_stf, TRUE,
                         last.dt).data[comp]

\* C18: post-processing is applied once per component label: with a label
\* listed more than once, the series get_seismograms returns for it is the
\* series returned when it is listed once (trimmed once, reconvolved once,
\* resampled once), and in get_seismograms_finite_source each source
\* contributes once to the label's sum.
C18_OncePerLabel ==
    ((IsQuery \/ IsFinite) /\ last.error = None) =>
        \A comp \in Range(last.components) : last.data[comp] = listed_once(comp)

\* With no label listed twice the returned series are those of the labels
\* asked one at a time.
C18_HoldsForDistinctLabels ==
    (IsQuery \/ IsFinite) /\ DistinctLabels(last.components) => C18_OncePerLabel

\* Z was listed twice and the call returned: the source shift was trimmed
\* twice, or the one source was summed twice.
C18_LabelProcessedTwice ==
    ~(/\ (IsQuery \/ IsFinite) /\ last.error = None
      /\ last.components = <<"Z", "Z">>
      /\ last.data["Z"] # listed_once("Z"))

(***************************************************************************)
(* The decode loop for a mesh of any polynomial order: C16.  The order is   *)
(* an attribute of the database file (parsed_mesh.npol); the loop bounds    *)
(* follow it, the stride of the flat index does not.                        *)
(***************************************************************************)
MaxNpol == 6        \* the largest polynomial order decoded

\* sem_mesh[idx] of a mesh of order n: the nodal ids as a (n+1) x (n+1) grid.
sem_mesh_of(n, idx) ==
    [ipol \in 0 .. n |-> [jpol \in 0 .. n |->
        idx * (n + 1) * (n + 1) + ipol * (n + 1) + jpol]]

\* gll_point_ids.flatten() of that grid: row-major.
flatten_of(n, grid) ==
    [k \in 0 .. ((n + 1) * (n + 1) - 1) |-> grid[k \div (n + 1)][k % (n + 1)]]

\* A decode loop whose stride follows the order of the mesh.
decode_nodes_stride_npol(n, gll_point_ids) ==
    LET ids == flatten_of(n, gll_point_ids)
    IN  [error |-> None,
         placed |-> [jpol \in 0 .. n |-> [ipol \in 0 .. n |-> ids[ipol * (n + 1) + jpol]]]]

\* for ipol in xrange(npol + 1): for jpol in xrange(npol + 1):
\*     utemp[:, jpol, ipol, i] = temp[:, ipol * 5 + jpol]
\* where temp has one column per entry of gll_point_ids.flatten(); placed is
\* the node whose series ends up at each position of utemp.
decode_nodes(n, gll_point_ids) ==
    LET ids == flatten_of(n, gll_point_ids)
    IN  IF \E ipol \in 0 .. n, jpol \in 0 .. n : flat_index(ipol, jpol) \notin DOMAIN ids
        THEN [error |-> "IndexError", placed |-> NoValue]
        ELSE [error |-> None,
              placed |-> [jpol \in 0 .. n |-> [ipol \in 0 .. n |-> ids[flat_index(ipol, jpol)]]]]

\* The miss branch of __get_displacement (forward databases) and of
\* __get_strain_interp (reciprocal displ_only databases) for one element of
\* one mesh of the open database: the decode loop, the strain derived from
\* utemp, and the add to the buffer of the mesh.  An IndexError leaves the
\* loop before anything is stored.
DecodeElement(mesh, id_elem) ==
    /\ db.state = "open"
    /\ db.dump_type = "displ_only"
    /\ mesh \in db.meshes
    /\ nq < MaxQueries
    /\ ~buffer_contains(IF db.reciprocal THEN strain_buffer[mesh] ELSE displ_buffer[mesh],
                        id_elem)
    /\ \E r \in {decode_nodes(fs.npol, sem_mesh_of(fs.npol, id_elem))} :
         \E utemp \in {IF r.error # None THEN NoValue
                       ELSE [t \in Times |-> [jpol \in 0 .. fs.npol |->
                                [ipol \in 0 .. fs.npol |-> [i \in 0 .. 2 |->
                                    IF has_displ_var(mesh, i)
                                    THEN Snapshot(mesh, i, t, r.placed[jpol][ipol])
                                    ELSE 0]]]]} :
           /\ last' = [kind |-> "decode",
                       field |-> IF db.reciprocal THEN "strain" ELSE "displ",
                       mesh |-> mesh, npol |-> fs.npol, id_elem |-> id_elem,
                       error |-> r.error, placed |-> r.placed, utemp |-> utemp]
           /\ strain_buffer' =
                  IF r.error = None /\ db.reciprocal
                  THEN [strain_buffer EXCEPT ![mesh] =
                           buffer_add(@, db.strain_cap, id_elem,
                                      strain_td(excitation_type(mesh), utemp, fs.npol,
                                                axis_of(id_elem)))]
                  ELSE strain_buffer
           /\ displ_buffer' =
                  IF r.error = None /\ ~db.reciprocal
                  THEN [displ_buffer EXCEPT ![mesh] =
                           buffer_add(@, db.displ_cap, id_elem, utemp)]
                  ELSE displ_buffer
           /\ decodes' =
                  IF r.error = None
                  THEN [decodes EXCEPT ![IF db.reciprocal THEN "strain" ELSE "displ"][mesh][id_elem] = @ + 1]
                  ELSE decodes
    /\ nq' = nq + 1
    /\ UNCHANGED <<fs, db, procs>>

DecodeAnyOrder ==
    \E mesh \in MeshNames, id_elem \in 0 .. 1 : DecodeElement(mesh, id_elem)

\* Complete displ_only databases, reciprocal and forward, whose mesh files
\* carry a polynomial order from 1 to MaxNpol.
InitDecode ==
    InitWith({[dirs |-> Database(present, "displ_only").dirs, dump_type |-> "displ_only",
               npol |-> n] : present \in {{"PX", "PZ"}, FwdDirs}, n \in 1 .. MaxNpol})

NextDecode == OpenAny \/ DecodeAnyOrder

SpecDecode == InitDecode /\ [][NextDecode]_vars

IsDecode == last.kind = "decode"

\* C16: for every polynomial order npol the decode of an element puts the
\* series of the node at (ipol, jpol) of the element's nodal grid, flat index
\* ipol*(npol+1) + jpol, at utemp[:, jpol, ipol, c]: no node is read twice,
\* none is skipped, and no index falls outside the element's node list.
C16_DecodeBijection ==
    IsDecode =>
        /\ last.error = None
        /\ \A ipol \in 0 .. last.npol, jpol \in 0 .. last.npol :
               last.placed[jpol][ipol] = sem_mesh_of(last.npol, last.id_elem)[ipol][jpol]

\* The decode is the claimed bijection when the order is 4, the order whose
\* row length the loop's stride is.
C16_HoldsForOrderFour ==
    (IsDecode /\ last.npol = 4) =>
        /\ last.error = None
        /\ \A ipol \in 0 .. 4, jpol \in 0 .. 4 :
               /\ last.placed[jpol][ipol] = sem_mesh_of(4, last.id_elem)[ipol][jpol]
               /\ last.placed[jpol][ipol] = sem_mesh(last.id_elem)[ipol][jpol]
        /\ last.utemp = decode_displacement(last.mesh, last.id_elem)
        /\ decodes[last.field][last.mesh][last.id_elem] >= 1
        /\ (db.reciprocal /\ db.strain_cap >= 1) =>
               /\ buffer_contains(strain_buffer[last.mesh], last.id_elem)
               /\ buffer_value(strain_buffer[last.mesh], last.id_elem)
                      = decode_strain(last.mesh, last.id_elem)
        /\ (~db.reciprocal /\ db.displ_cap >= 1) =>
               /\ buffer_contains(displ_buffer[last.mesh], last.id_elem)
               /\ buffer_value(displ_buffer[last.mesh], last.id_elem) = last.utemp

\* An order below 4: the loop reads past the element's node list.
C16_ReadsOutsideNodeList == ~(IsDecode /\ last.npol = 3 /\ last.error = "IndexError")

\* An order above 4: one node is read twice and the element's last nodes are
\* never read.
C16_NodeReadTwice ==
    ~(/\ IsDecode /\ last.npol = 5 /\ last.error = None
      /\ last.placed[5][0] = last.placed[0][1]
      /\ \A ipol \in 0 .. 5, jpol \in 0 .. 5 :
             last.placed[jpol][ipol] # sem_mesh_of(5, last.id_elem)[5][5])

(***************************************************************************)
(* Queries running concurrently on one handle: C5.  Each process is inside  *)
(* a fetch function (__get_strain_interp on a displ_only database,          *)
(* __get_strain otherwise); the steps are the statements that touch the     *)
(* shared buffer.                                                           *)
(***************************************************************************)
Procs == 1 .. NProc

Idle == [pc |-> "idle", mesh |-> None, id_elem |-> -1, xi |-> 0, eta |-> 0,
         held_at_test |-> {}, strain |-> NoValue, value |-> NoValue, error |-> None]

\* A membership test that never finds the element.
not_in_buffer_always(buf, id_elem) == TRUE

\* if id_elem not in mesh.strain_buffer
not_in_buffer(buf, id_elem) == ~buffer_contains(buf, id_elem)

\* What the fetch function returns from the block it holds.
fetch_result(mesh, strain, xi, eta) ==
    IF db.dump_type = "displ_only" THEN interpolate_strain(mesh, strain, xi, eta) ELSE strain

\* A query reaches the fetch of one mesh at its located element.
Call(p, src, mesh) ==
    /\ db.state = "open" /\ db.reciprocal
    /\ nq < MaxQueries
    /\ procs[p].pc \in {"idle", "done"}
    /\ mesh \in db.meshes
    /\ \E loc \in {locate(db.dump_type, src.pt)} :
           /\ loc.error = None
           /\ procs' = [procs EXCEPT ![p] = [Idle EXCEPT !.pc = "test", !.mesh = mesh,
                                                         !.id_elem = loc.id_elem,
                                                         !.xi = loc.xi, !.eta = loc.eta]]
    /\ nq' = nq + 1
    /\ UNCHANGED <<fs, db, strain_buffer, displ_buffer, decodes, last>>

\* The membership test.
Test(p) ==
    /\ procs[p].pc = "test"
    /\ procs' = [procs EXCEPT
                    ![p].pc = IF not_in_buffer(strain_buffer[procs[p].mesh], procs[p].id_elem)
                              THEN "decode" ELSE "get",
                    ![p].held_at_test = buffer_keys(strain_buffer[procs[p].mesh])]
    /\ UNCHANGED <<fs, db, strain_buffer, displ_buffer, decodes, nq, last>>

\* The raw read and, for displ_only, the derivative kernel.
Decode(p) ==
    /\ procs[p].pc = "decode"
    /\ procs' = [procs EXCEPT ![p].pc = "add",
                              ![p].strain = decode_of("strain", procs[p].mesh, procs[p].id_elem)]
    /\ decodes' = [decodes EXCEPT !["strain"][procs[p].mesh][procs[p].id_elem] = @ + 1]
    /\ UNCHANGED <<fs, db, strain_buffer, displ_buffer, nq, last>>

\* mesh.strain_buffer.add(id_elem, strain), and the return.
Add(p) ==
    /\ procs[p].pc = "add"
    /\ strain_buffer' = [strain_buffer EXCEPT ![procs[p].mesh] =
                            buffer_add(@, db.strain_cap, procs[p].id_elem, procs[p].strain)]
    /\ procs' = [procs EXCEPT ![p].pc = "done",
                              ![p].value = fetch_result(procs[p].mesh, procs[p].strain,
                                                        procs[p].xi, procs[p].eta)]
    /\ UNCHANGED <<fs, db, displ_buffer, decodes, nq, last>>

\* strain = mesh.strain_buffer.get(id_elem), and the return; the entry may have
\* been evicted since the test.
Get(p) ==
    /\ procs[p].pc = "get"
    /\ IF buffer_contains(strain_buffer[procs[p].mesh], procs[p].id_elem)
       THEN /\ strain_buffer' = [strain_buffer EXCEPT ![procs[p].mesh] =
                                    buffer_get(@, procs[p].id_elem)]
            /\ \E strain \in {buffer_value(strain_buffer[procs[p].mesh], procs[p].id_elem)} :
                   procs' = [procs EXCEPT ![p].pc = "done",
                                          ![p].strain = strain,
                                          ![p].value = fetch_result(procs[p].mesh, strain,
                                                                    procs[p].xi, procs[p].eta)]
       ELSE /\ procs' = [procs EXCEPT ![p].pc = "done", ![p].error = "KeyError"]
            /\ UNCHANGED strain_buffer
    /\ UNCHANGED <<fs, db, displ_buffer, decodes, nq, last>>

InitConc ==
    /\ fs \in {Database({"PX", "PZ"}, dump_type) : dump_type \in {"displ_only", "strain_only"}}
    /\ db = NoDb
    /\ strain_buffer = EmptyBuffers
    /\ displ_buffer = EmptyBuffers
    /\ decodes = NoDecodes
    /\ nq = 0
    /\ last = NoLast
    /\ procs = [p \in Procs |-> Idle]

CallAny == \E p \in Procs, src \in {SrcA, SrcB}, mesh \in {"px", "pz"} : Call(p, src, mesh)
TestAny == \E p \in Procs : Test(p)
DecodeAny == \E p \in Procs : Decode(p)
AddAny == \E p \in Procs : Add(p)
GetAny == \E p \in Procs : Get(p)

NextConc == OpenAny \/ CallAny \/ TestAny \/ DecodeAny \/ AddAny \/ GetAny

SpecConc == InitConc /\ [][NextConc]_vars

same_element(p, q) == procs[p].mesh = procs[q].mesh /\ procs[p].id_elem = procs[q].id_elem

NoPartialEntry ==
    /\ \A m \in MeshNames : \A i \in DOMAIN strain_buffer[m] :
           strain_buffer[m][i].value = decode_of("strain", m, strain_buffer[m][i].key)
    /\ \A p \in Procs :
           (procs[p].pc = "done" /\ procs[p].error = None) =>
               procs[p].value = fetch_result(procs[p].mesh,
                                             decode_of("strain", procs[p].mesh, procs[p].id_elem),
                                             procs[p].xi, procs[p].eta)

\* C5 (as stated): under concurrent queries on one handle there is at most one
\* decode per (mesh, element id): two queries that interleave between the
\* membership test and the add for the same element id never both run the
\* decode, and no reader obtains a partially written entry.
C5_AtMostOneDecode ==
    /\ \A p, q \in Procs :
           (p # q /\ same_element(p, q)) =>
               ~(procs[p].pc = "add" /\ procs[q].pc = "add")
    /\ NoPartialEntry

\* C5 (amended): the buffers are not locked: a fetch runs the decode exactly
\* when its own membership test finds the element id absent, so two queries that
\* both test before either adds both run the decode for the same element; the
\* decodes never outnumber the fetches, every stored entry and every returned
\* array equals the decode of its element, and no reader obtains a partially
\* written entry.
C5_DecodePerMissingTest ==
    /\ \A p \in Procs :
           /\ procs[p].pc \in {"decode", "add"} => procs[p].id_elem \notin procs[p].held_at_test
           /\ procs[p].pc = "get" => procs[p].id_elem \in procs[p].held_at_test
    /\ \A m \in MeshNames, e \in Elems : decodes["strain"][m][e] <= nq
    /\ NoPartialEntry

\* Two queries have both decoded the same element and neither has added it yet.
C5_Witness ==
    \E p, q \in Procs :
        /\ p # q /\ same_element(p, q)
        /\ procs[p].pc = "add" /\ procs[q].pc = "add"
        /\ procs[p].strain = procs[q].strain
        /\ db.strain_cap >= 1

====
